---- MODULE Spec2Model ----
(***************************************************************************)
(* Maze generation, connectivity repair and path finding of the            *)
(* "Snail to Riches" maze core.                                            *)
(*                                                                         *)
(*   v1.1.0 generator : src/maze new/maze-utils.js (class MazeGenerator)   *)
(*   v1.2.0 generator : src/modules/game/Maze/Generator/mazeGenerator.js   *)
(*                                                                         *)
(* A grid is a function [0..rows-1 -> [0..cols-1 -> cell type]], so that   *)
(* maze[row][col] reads as in the source.  Positions are records           *)
(* [row, col].  Math.random() is a nondeterministic choice.                *)
(***************************************************************************)
EXTENDS Integers, Sequences, FiniteSets, TLC

VARIABLES
    ver,        \* which generator runs: "v110" or "v120"
    rows,       \* this.rows
    cols,       \* this.cols
    difficulty, \* this.difficulty
    pc,         \* position of the run inside generate() / of the caller
    maze,       \* the grid the current stage works on
    stack,      \* carver: the chain of active carvePassages calls / the stack
    start,      \* start position ({row, col})
    finish,     \* finish position ({row, col}), NoPos before placement
    count,      \* target of the running adjustment loop
    added,      \* pathsAdded / wallsAdded
    attempts,   \* attempts (v1.1.0) or the loop index i (v1.2.0)
    given,      \* pathfinder queries: the grid as handed to findPath
    results     \* pathfinder queries: the sequences returned so far

vars == <<ver, rows, cols, difficulty, pc, maze, stack, start, finish,
          count, added, attempts, given, results>>

----------------------------------------------------------------------------
(* Cell types (CellTypes) *)
EMPTY == 0
WALL == 1
START == 2
FINISH == 3
OBSTACLE == 4

(* validateParameters: rows and cols must be integers >= 5 *)
MinSize == 5

(* Bounds of the model *)
MaxRows == 6
MaxCols == 5
MaxFree == 9
MaxCalls == 2
(* cells that may be open in a grid handed to the repair pass *)
MaxOpen == 5
(* largest step count handed to getRandomPath *)
MaxSteps == 3
(* open cells of a maze handed to serializeMaze *)
MaxPassages == 4

Difficulties == {"easy", "medium", "hard", "extreme"}

NoPos == [row |-> -1, col |-> -1]

Pos(r, c) == [row |-> r, col |-> c]

NumRows(m) == Cardinality(DOMAIN m)

NumCols(m) == Cardinality(DOMAIN m[0])

Abs(x) == IF x < 0 THEN -x ELSE x

(* new Array(rows).fill().map(() => new Array(cols).fill(WALL)) *)
AllWalls(nrows, ncols) == [r \in 0..(nrows - 1) |-> [c \in 0..(ncols - 1) |-> WALL]]

SetCell(m, r, c, v) == [m EXCEPT ![r][c] = v]

isInBounds(row, col, nrows, ncols) ==
    row >= 0 /\ row < nrows /\ col >= 0 /\ col < ncols

(* the scan of the four directions from last to first *)
directionsReversed == << <<0, 1>>, <<0, -1>>, <<1, 0>>, <<-1, 0>> >>

(* up, down, left, right *)
directions == << <<-1, 0>>, <<1, 0>>, <<0, -1>>, <<0, 1>> >>

(* the tags of up and down exchanged *)
DirectionNamesSwapped == << "down", "up", "left", "right" >>

DirectionNames == <<"up", "down", "left", "right">>

heuristicRowOnly(row1, col1, row2, col2) == 3 * Abs(row1 - row2)

heuristic(row1, col1, row2, col2) == Abs(row1 - row2) + Abs(col1 - col2)

(* Reading maze[row][col] where the source would index outside the array   *)
(* yields a value that is not WALL (undefined); the callers below guard    *)
(* every read with isInBounds, as the source does.                         *)
CellAt(m, row, col) ==
    IF row \in DOMAIN m /\ col \in DOMAIN m[row] THEN m[row][col] ELSE -1

RECURSIVE neighborsFrom(_, _, _, _)
neighborsFrom(m, row, col, i) ==
    IF i > Len(directions) THEN <<>>
    ELSE LET newRow == row + directions[i][1]
             newCol == col + directions[i][2]
         IN  (IF isInBounds(newRow, newCol, NumRows(m), NumCols(m))
                  /\ CellAt(m, newRow, newCol) # WALL
              THEN << [row |-> newRow, col |-> newCol, direction |-> DirectionNames[i]] >>
              ELSE <<>>)
             \o neighborsFrom(m, row, col, i + 1)

getNeighborsNoLeft(m, row, col) ==
    SelectSeq(neighborsFrom(m, row, col, 1), LAMBDA n : n.direction # "left")

getNeighbors(m, row, col) == neighborsFrom(m, row, col, 1)

(* a walk that returns after its first move *)
walkOneMove(m, path, i, steps, walkAttempts) ==
    LET current == path[Len(path)]
        neighbors == getNeighbors(m, current.row, current.col)
    IN  IF Len(neighbors) = 0 THEN {path}
        ELSE { Append(path, Pos(neighbors[k].row, neighbors[k].col)) :
               k \in 1..Len(neighbors) }

(* getRandomPath: the loop from iteration i on.  Math.random picks any     *)
(* index of neighbors, so the result is the set of the walks the call can  *)
(* return.                                                                 *)
RECURSIVE walkFrom(_, _, _, _, _)
walkFrom(m, path, i, steps, walkAttempts) ==
    IF ~(i < steps /\ walkAttempts < steps * 2) THEN {path}
    ELSE LET current == path[Len(path)]
             neighbors == getNeighbors(m, current.row, current.col)
         IN  IF Len(neighbors) = 0 THEN {path}
             ELSE UNION { walkFrom(m, Append(path, Pos(neighbors[k].row, neighbors[k].col)),
                                   i + 1, steps, walkAttempts + 1) :
                          k \in 1..Len(neighbors) }

(* getRandomPath(maze, startRow, startCol, steps): the possible results *)
getRandomPath(m, startRow, startCol, steps) ==
    IF ~isInBounds(startRow, startCol, NumRows(m), NumCols(m)) THEN { <<>> }
    ELSE IF steps <= 0 THEN { <<>> }
    ELSE walkFrom(m, << Pos(startRow, startCol) >>, 0, steps, 0)

----------------------------------------------------------------------------
(* findPath of v1.1.0: A* over node objects {row, col, g, h, f, parent}.   *)
(* parent is <<>> for null and <<node>> for a reference; a node is closed  *)
(* (and never written again) before it becomes anybody's parent.           *)

RECURSIVE lowestFrom(_, _, _)
lowestFrom(openSet, i, lowestIndex) ==
    IF i > Len(openSet) THEN lowestIndex
    ELSE lowestFrom(openSet, i + 1,
                    IF openSet[i].f < openSet[lowestIndex].f THEN i ELSE lowestIndex)

LowestIndex(openSet) == lowestFrom(openSet, 2, 1)

(* a splice that removes nothing *)
SpliceNone(s, i) == s

Splice(s, i) == SubSeq(s, 1, i - 1) \o SubSeq(s, i + 1, Len(s))

Key(row, col) == <<row, col>>

IndexOf(openSet, row, col) ==
    IF \E i \in 1..Len(openSet) : openSet[i].row = row /\ openSet[i].col = col
    THEN CHOOSE i \in 1..Len(openSet) :
            /\ openSet[i].row = row /\ openSet[i].col = col
            /\ \A j \in 1..(i - 1) : ~(openSet[j].row = row /\ openSet[j].col = col)
    ELSE 0

RECURSIVE parentChain(_)
parentChain(temp) ==
    IF temp.parent = <<>> THEN <<>>
    ELSE parentChain(temp.parent[1]) \o << Pos(temp.row, temp.col) >>

reconstructNoStart(current, startRow, startCol) == parentChain(current)

reconstruct(current, startRow, startCol) ==
    << Pos(startRow, startCol) >> \o parentChain(current)

RECURSIVE relaxNeighbors(_, _, _, _, _, _, _)
relaxNeighbors(openSet, closedSet, neighbors, i, current, finishRow, finishCol) ==
    IF i > Len(neighbors) THEN openSet
    ELSE LET neighbor == neighbors[i]
             g == current.g + 1
             h == heuristic(neighbor.row, neighbor.col, finishRow, finishCol)
             f == g + h
             k == IndexOf(openSet, neighbor.row, neighbor.col)
             next ==
                 IF Key(neighbor.row, neighbor.col) \in closedSet THEN openSet
                 ELSE IF k # 0
                      THEN IF g < openSet[k].g
                           THEN [openSet EXCEPT ![k] =
                                    [@ EXCEPT !.g = g, !.f = g + h, !.parent = <<current>>]]
                           ELSE openSet
                      ELSE Append(openSet,
                                  [row |-> neighbor.row, col |-> neighbor.col,
                                   g |-> g, h |-> h, f |-> f, parent |-> <<current>>])
         IN  relaxNeighbors(next, closedSet, neighbors, i + 1, current, finishRow, finishCol)

(* One search; the record returned holds the sequence returned by the      *)
(* source (path), the grid as the call leaves it (maze), the iterations    *)
(* spent, and whether the loop stopped on the iteration cap (capped).      *)
RECURSIVE findPathLoop(_, _, _, _, _, _, _, _, _)
findPathLoop(m, openSet, closedSet, iterations, maxIterations, startRow, startCol, finishRow, finishCol) ==
    IF ~(Len(openSet) > 0 /\ iterations < maxIterations)
    THEN [path |-> <<>>, maze |-> m, iterations |-> iterations,
          capped |-> Len(openSet) > 0]
    ELSE LET lowestIndex == LowestIndex(openSet)
             current == openSet[lowestIndex]
         IN  IF current.row = finishRow /\ current.col = finishCol
             THEN [path |-> reconstruct(current, startRow, startCol), maze |-> m,
                   iterations |-> iterations + 1, capped |-> FALSE]
             ELSE findPathLoop(m,
                     relaxNeighbors(Splice(openSet, lowestIndex),
                                    closedSet \cup {Key(current.row, current.col)},
                                    getNeighbors(m, current.row, current.col), 1,
                                    current, finishRow, finishCol),
                     closedSet \cup {Key(current.row, current.col)},
                     iterations + 1, maxIterations,
                     startRow, startCol, finishRow, finishCol)

findPathSearch(m, nrows, ncols, startRow, startCol, finishRow, finishCol) ==
    findPathLoop(m,
        << [row |-> startRow, col |-> startCol, g |-> 0,
            h |-> heuristic(startRow, startCol, finishRow, finishCol),
            f |-> heuristic(startRow, startCol, finishRow, finishCol),
            parent |-> <<>>] >>,
        {}, 0, nrows * ncols * 2, startRow, startCol, finishRow, finishCol)

(* The iterations of the findPath loop that remove a node from openSet:   *)
(* for each, the cell removed and the cells of openSet as the iteration    *)
(* leaves it.                                                              *)
RECURSIVE findPathTrace(_, _, _, _, _, _, _, _)
findPathTrace(m, openSet, closedSet, iterations, maxIterations, finishRow, finishCol, acc) ==
    IF ~(Len(openSet) > 0 /\ iterations < maxIterations) THEN acc
    ELSE LET lowestIndex == LowestIndex(openSet)
             current == openSet[lowestIndex]
             closed == closedSet \cup {Key(current.row, current.col)}
         IN  IF current.row = finishRow /\ current.col = finishCol THEN acc
             ELSE LET after == relaxNeighbors(Splice(openSet, lowestIndex), closed,
                                              getNeighbors(m, current.row, current.col), 1,
                                              current, finishRow, finishCol)
                  IN  findPathTrace(m, after, closed, iterations + 1, maxIterations,
                                    finishRow, finishCol,
                                    Append(acc,
                                        [removed |-> Pos(current.row, current.col),
                                         openSet |-> [i \in 1..Len(after) |->
                                                         Pos(after[i].row, after[i].col)]]))

findPathRemovals(m, nrows, ncols, startRow, startCol, finishRow, finishCol) ==
    findPathTrace(m,
        << [row |-> startRow, col |-> startCol, g |-> 0,
            h |-> heuristic(startRow, startCol, finishRow, finishCol),
            f |-> heuristic(startRow, startCol, finishRow, finishCol),
            parent |-> <<>>] >>,
        {}, 0, nrows * ncols * 2, finishRow, finishCol, <<>>)

RECURSIVE markCells(_, _, _)
markCells(m, path, i) ==
    IF i > Len(path) THEN m
    ELSE markCells(SetCell(m, path[i].row, path[i].col, OBSTACLE), path, i + 1)

findPathMarking(m, nrows, ncols, startRow, startCol, finishRow, finishCol) ==
    LET r == findPathSearch(m, nrows, ncols, startRow, startCol, finishRow, finishCol)
    IN  [r EXCEPT !.maze = markCells(m, r.path, 1)]

findPath(m, nrows, ncols, startRow, startCol, finishRow, finishCol) ==
    findPathSearch(m, nrows, ncols, startRow, startCol, finishRow, finishCol)

----------------------------------------------------------------------------
(* Reference reachability: breadth-first layers over 4-adjacent non-WALL   *)
(* cells.  Used by the properties only.                                    *)

Cells(m) == { Pos(r, c) : r \in DOMAIN m, c \in DOMAIN m[0] }

Adjacent(p, q) == Abs(p.row - q.row) + Abs(p.col - q.col) = 1

Passable(m, p) == m[p.row][p.col] # WALL

RECURSIVE Layers(_, _, _, _)
Layers(m, frontier, seen, d) ==
    IF frontier = {} THEN [p \in {} |-> 0]
    ELSE LET next == { q \in Cells(m) \ seen :
                         Passable(m, q) /\ \E p \in frontier : Adjacent(p, q) }
         IN  [p \in frontier |-> d] @@ Layers(m, next, seen \cup next, d + 1)

(* hop distance from a to every cell reachable from a *)
Distances(m, a) == Layers(m, {a}, {a}, 0)

Reachable(m, a, b) == b \in DOMAIN Distances(m, a)

----------------------------------------------------------------------------
(* findDistantPoint of v1.1.0: BFS queue of {row, col, distance}.          *)

RECURSIVE enqueueFrom(_, _, _, _, _)
enqueueFrom(m, current, i, queue, visited) ==
    IF i > Len(directions) THEN [queue |-> queue, visited |-> visited]
    ELSE LET newRow == current.row + directions[i][1]
             newCol == current.col + directions[i][2]
             take == /\ isInBounds(newRow, newCol, NumRows(m), NumCols(m))
                     /\ CellAt(m, newRow, newCol) = EMPTY
                     /\ Key(newRow, newCol) \notin visited
         IN  IF take
             THEN enqueueFrom(m, current, i + 1,
                      Append(queue, [row |-> newRow, col |-> newCol,
                                     distance |-> current.distance + 1]),
                      visited \cup {Key(newRow, newCol)})
             ELSE enqueueFrom(m, current, i + 1, queue, visited)

RECURSIVE distantLoop(_, _, _, _)
distantLoop(m, queue, visited, farthestPoint) ==
    IF Len(queue) = 0 THEN farthestPoint
    ELSE LET current == Head(queue)
             far == IF current.distance > farthestPoint.distance
                    THEN current ELSE farthestPoint
             e == enqueueFrom(m, current, 1, Tail(queue), visited)
         IN  distantLoop(m, e.queue, e.visited, far)

findDistantPoint(m, startRow, startCol) ==
    distantLoop(m, << [row |-> startRow, col |-> startCol, distance |-> 0] >>,
                {Key(startRow, startCol)},
                [row |-> startRow, col |-> startCol, distance |-> 0])

----------------------------------------------------------------------------
(* createPath of v1.1.0: A* that ignores walls, nodes carry their path;    *)
(* falls back to a rounded straight line when the search finds nothing.    *)

(* createPath that finds its way but opens no cell *)
carveNothing(m, path, i) ==
    m

RECURSIVE carveCells(_, _, _)
carveCells(m, path, i) ==
    IF i > Len(path) THEN m
    ELSE carveCells(SetCell(m, path[i].row, path[i].col, EMPTY), path, i + 1)

RECURSIVE createRelax(_, _, _, _, _, _, _, _)
createRelax(openSet, closedSet, i, current, finishRow, finishCol, nrows, ncols) ==
    IF i > Len(directions) THEN openSet
    ELSE LET newRow == current.row + directions[i][1]
             newCol == current.col + directions[i][2]
             g == current.g + 1
             h == heuristic(newRow, newCol, finishRow, finishCol)
             f == g + h
             k == IndexOf(openSet, newRow, newCol)
             next ==
                 IF ~isInBounds(newRow, newCol, nrows, ncols)
                        \/ Key(newRow, newCol) \in closedSet
                 THEN openSet
                 ELSE IF k # 0 /\ g >= openSet[k].g THEN openSet
                 ELSE IF k # 0
                      THEN [openSet EXCEPT ![k] =
                              [@ EXCEPT !.g = g, !.f = f,
                                        !.path = Append(current.path, Pos(newRow, newCol))]]
                      ELSE Append(openSet,
                              [row |-> newRow, col |-> newCol, g |-> g, h |-> h, f |-> f,
                               path |-> Append(current.path, Pos(newRow, newCol))])
         IN  createRelax(next, closedSet, i + 1, current, finishRow, finishCol, nrows, ncols)

(* Math.round(a + (d * i) / steps), for steps > 0 *)
RoundLine(a, d, i, steps) == (2 * (a * steps + d * i) + steps) \div (2 * steps)

RECURSIVE straightLine(_, _, _, _, _, _, _, _, _)
straightLine(m, i, steps, startRow, startCol, dy, dx, nrows, ncols) ==
    IF i > steps THEN m
    ELSE LET row == RoundLine(startRow, dy, i, steps)
             col == RoundLine(startCol, dx, i, steps)
         IN  straightLine(IF isInBounds(row, col, nrows, ncols)
                          THEN SetCell(m, row, col, EMPTY) ELSE m,
                          i + 1, steps, startRow, startCol, dy, dx, nrows, ncols)

Max(a, b) == IF a >= b THEN a ELSE b

RECURSIVE createPathLoop(_, _, _, _, _, _, _, _, _)
createPathLoop(m, openSet, closedSet, startRow, startCol, finishRow, finishCol, nrows, ncols) ==
    IF Len(openSet) = 0
    THEN LET dx == finishCol - startCol
             dy == finishRow - startRow
             steps == Max(Abs(dx), Abs(dy))
         IN  straightLine(m, 0, steps, startRow, startCol, dy, dx, nrows, ncols)
    ELSE LET lowestIndex == LowestIndex(openSet)
             current == openSet[lowestIndex]
         IN  IF current.row = finishRow /\ current.col = finishCol
             THEN carveCells(m, current.path, 1)
             ELSE createPathLoop(m,
                     createRelax(Splice(openSet, lowestIndex),
                                 closedSet \cup {Key(current.row, current.col)},
                                 1, current, finishRow, finishCol, nrows, ncols),
                     closedSet \cup {Key(current.row, current.col)},
                     startRow, startCol, finishRow, finishCol, nrows, ncols)

createPath(m, nrows, ncols, startRow, startCol, finishRow, finishCol) ==
    createPathLoop(m,
        << [row |-> startRow, col |-> startCol, g |-> 0,
            h |-> heuristic(startRow, startCol, finishRow, finishCol),
            f |-> heuristic(startRow, startCol, finishRow, finishCol),
            path |-> <<>>] >>,
        {}, startRow, startCol, finishRow, finishCol, nrows, ncols)

(* a repair pass that carves without asking findPath first *)
ensurePathExistsCreates(m, nrows, ncols, startRow, startCol, finishRow, finishCol) ==
    LET made == createPath(m, nrows, ncols, startRow, startCol, finishRow, finishCol)
        again == findPath(made, nrows, ncols, startRow, startCol, finishRow, finishCol)
    IN  [ok |-> Len(again.path) # 0, maze |-> again.maze, created |-> TRUE]

(* ensurePathExists of v1.1.0: [ok, maze]; ok = FALSE is the thrown        *)
(* 'Cannot ensure path exists between start and finish'.                   *)
ensurePathExists(m, nrows, ncols, startRow, startCol, finishRow, finishCol) ==
    LET first == findPath(m, nrows, ncols, startRow, startCol, finishRow, finishCol)
    IN  IF Len(first.path) = 0
        THEN LET made == createPath(first.maze, nrows, ncols,
                                    startRow, startCol, finishRow, finishCol)
                 again == findPath(made, nrows, ncols,
                                   startRow, startCol, finishRow, finishCol)
             IN  [ok |-> Len(again.path) # 0, maze |-> again.maze, created |-> TRUE]
        ELSE [ok |-> TRUE, maze |-> first.maze, created |-> FALSE]

(* ensureBoundaryWalls: both loops, every perimeter cell becomes WALL *)
ensureBoundaryWallsSidesOnly(m, nrows, ncols) ==
    [r \in DOMAIN m |-> [c \in DOMAIN m[r] |->
        IF c = 0 \/ c = ncols - 1 THEN WALL ELSE m[r][c]]]

ensureBoundaryWalls(m, nrows, ncols) ==
    [r \in DOMAIN m |-> [c \in DOMAIN m[r] |->
        IF r = 0 \/ r = nrows - 1 \/ c = 0 \/ c = ncols - 1 THEN WALL ELSE m[r][c]]]

----------------------------------------------------------------------------
(* generate() of v1.1.0, stage by stage.                                   *)

(* 1 + 2 * Math.floor(Math.random() * Math.floor((n - 3) / 2)) *)
(* a carving start on the even lattice *)
StartCoordinatesEven(n) == { 2 * i : i \in 1..((n - 3) \div 2) }

StartCoordinates(n) == { 1 + 2 * i : i \in 0..(((n - 3) \div 2) - 1) }

(* the directions (offset 2) whose target is inside the grid and still WALL *)
Unvisited(m, row, col) ==
    { i \in 1..Len(directions) :
        LET newRow == row + 2 * directions[i][1]
            newCol == col + 2 * directions[i][2]
        IN  isInBounds(newRow, newCol, NumRows(m), NumCols(m))
            /\ CellAt(m, newRow, newCol) = WALL }

(* a carver that opens the target and leaves the cell between closed *)
carveTargetOnly(m, row, col, i) ==
    SetCell(m, row + 2 * directions[i][1], col + 2 * directions[i][2], EMPTY)

(* maze[row + dRow / 2][col + dCol / 2] = EMPTY; maze[newRow][newCol] = EMPTY *)
carve(m, row, col, i) ==
    SetCell(SetCell(m, row + directions[i][1], col + directions[i][2], EMPTY),
            row + 2 * directions[i][1], col + 2 * directions[i][2], EMPTY)

(* a target of one cell in five for every tier *)
targetCountFifth(d, nrows, ncols) ==
    (nrows * ncols * 20) \div 100

(* Math.floor(rows * cols * fraction) for the tier *)
targetCount(d, nrows, ncols) ==
    CASE d = "easy" -> (nrows * ncols * 15) \div 100
      [] d = "medium" -> (nrows * ncols * 10) \div 100
      [] d = "hard" -> (nrows * ncols * 5) \div 100
      [] d = "extreme" -> (nrows * ncols * 10) \div 100

B2N(b) == IF b THEN 1 ELSE 0

(* body of the addRandomPaths loop for one picked cell *)
addRandomPathsPick(m, row, col, startRow, startCol, finishRow, finishCol, nrows, ncols) ==
    IF m[row][col] # WALL
          \/ (row = startRow /\ col = startCol)
          \/ (row = finishRow /\ col = finishCol)
    THEN [maze |-> m, added |-> 0]
    ELSE LET adjacentEmptyCount ==
                 B2N(row > 0 /\ CellAt(m, row - 1, col) = EMPTY)
               + B2N(row < nrows - 1 /\ CellAt(m, row + 1, col) = EMPTY)
               + B2N(col > 0 /\ CellAt(m, row, col - 1) = EMPTY)
               + B2N(col < ncols - 1 /\ CellAt(m, row, col + 1) = EMPTY)
         IN  IF adjacentEmptyCount >= 2
             THEN [maze |-> SetCell(m, row, col, EMPTY), added |-> 1]
             ELSE [maze |-> m, added |-> 0]

(* a wall pass that opens the picked cell as addRandomPaths does *)
addRandomWallsOpens(m, row, col, startRow, startCol, finishRow, finishCol, nrows, ncols) ==
    addRandomPathsPick(m, row, col, startRow, startCol, finishRow, finishCol, nrows, ncols)

(* a pick that keeps the wall whatever findPath answers *)
addRandomWallsKeep(m, row, col, startRow, startCol, finishRow, finishCol, nrows, ncols) ==
    IF m[row][col] # EMPTY
          \/ (row = startRow /\ col = startCol)
          \/ (row = finishRow /\ col = finishCol)
    THEN [maze |-> m, added |-> 0]
    ELSE [maze |-> SetCell(m, row, col, WALL), added |-> 1]

(* body of the addRandomWalls loop for one picked cell *)
addRandomWallsPick(m, row, col, startRow, startCol, finishRow, finishCol, nrows, ncols) ==
    IF m[row][col] # EMPTY
          \/ (row = startRow /\ col = startCol)
          \/ (row = finishRow /\ col = finishCol)
    THEN [maze |-> m, added |-> 0]
    ELSE LET r == findPath(SetCell(m, row, col, WALL), nrows, ncols,
                           startRow, startCol, finishRow, finishCol)
         IN  IF Len(r.path) = 0
             THEN [maze |-> SetCell(r.maze, row, col, EMPTY), added |-> 0]
             ELSE [maze |-> r.maze, added |-> 1]

Generate110 ==
    /\ ver = "v110" /\ pc = "ready"
    /\ \E startRow \in StartCoordinates(rows), startCol \in StartCoordinates(cols) :
          /\ maze' = SetCell(AllWalls(rows, cols), startRow, startCol, EMPTY)
          /\ start' = Pos(startRow, startCol)
          /\ stack' = << Pos(startRow, startCol) >>
    /\ pc' = "carve"
    /\ UNCHANGED <<ver, rows, cols, difficulty, finish, count, added, attempts,
                   given, results>>

(* carvePassages: shuffleArray yields any order of the four directions and *)
(* the loop skips a direction whose target is outside the grid or already  *)
(* carved.  No cell returns to WALL while carving, so a skipped direction  *)
(* stays skipped: the next effective move of a call is any direction whose *)
(* target is still WALL, and the call returns when none is left.           *)
CarvePassages110 ==
    /\ ver = "v110" /\ pc = "carve" /\ Len(stack) > 0
    /\ LET row == stack[Len(stack)].row
           col == stack[Len(stack)].col
       IN  \/ \E i \in Unvisited(maze, row, col) :
                 /\ maze' = carve(maze, row, col, i)
                 /\ stack' = Append(stack, Pos(row + 2 * directions[i][1],
                                               col + 2 * directions[i][2]))
           \/ /\ Unvisited(maze, row, col) = {}
              /\ stack' = SubSeq(stack, 1, Len(stack) - 1)
              /\ maze' = maze
    /\ UNCHANGED <<ver, rows, cols, difficulty, pc, start, finish, count, added,
                   attempts, given, results>>

PlaceStartFinish110 ==
    /\ ver = "v110" /\ pc = "carve" /\ Len(stack) = 0
    /\ LET withStart == SetCell(maze, start.row, start.col, START)
           finishPoint == findDistantPoint(withStart, start.row, start.col)
       IN  /\ maze' = SetCell(withStart, finishPoint.row, finishPoint.col, FINISH)
           /\ finish' = Pos(finishPoint.row, finishPoint.col)
    /\ pc' = "placed"
    /\ UNCHANGED <<ver, rows, cols, difficulty, stack, start, count, added,
                   attempts, given, results>>

AdjustDifficulty110 ==
    /\ ver = "v110" /\ pc = "placed"
    /\ count' = targetCount(difficulty, rows, cols)
    /\ added' = 0
    /\ attempts' = 0
    /\ pc' = IF difficulty \in {"easy", "medium"} THEN "paths" ELSE "walls"
    /\ UNCHANGED <<ver, rows, cols, difficulty, maze, stack, start, finish,
                   given, results>>

AddRandomPaths110 ==
    /\ ver = "v110" /\ pc = "paths"
    /\ added < count /\ attempts < count * 3
    /\ \E row \in 1..(rows - 2), col \in 1..(cols - 2) :
          LET r == addRandomPathsPick(maze, row, col, start.row, start.col,
                                      finish.row, finish.col, rows, cols)
          IN  /\ maze' = r.maze
              /\ added' = added + r.added
    /\ attempts' = attempts + 1
    /\ UNCHANGED <<ver, rows, cols, difficulty, pc, stack, start, finish, count,
                   given, results>>

AddRandomWalls110 ==
    /\ ver = "v110" /\ pc = "walls"
    /\ added < count /\ attempts < count * 3
    /\ \E row \in 1..(rows - 2), col \in 1..(cols - 2) :
          LET r == addRandomWallsPick(maze, row, col, start.row, start.col,
                                      finish.row, finish.col, rows, cols)
          IN  /\ maze' = r.maze
              /\ added' = added + r.added
    /\ attempts' = attempts + 1
    /\ UNCHANGED <<ver, rows, cols, difficulty, pc, stack, start, finish, count,
                   given, results>>

AdjustReturn110 ==
    /\ ver = "v110" /\ pc \in {"paths", "walls"}
    /\ ~(added < count /\ attempts < count * 3)
    /\ pc' = "adjusted"
    /\ UNCHANGED <<ver, rows, cols, difficulty, maze, stack, start, finish, count,
                   added, attempts, given, results>>

EnsurePathExists110 ==
    /\ ver = "v110" /\ pc = "adjusted"
    /\ LET r == ensurePathExists(maze, rows, cols, start.row, start.col,
                                 finish.row, finish.col)
       IN  /\ maze' = r.maze
           /\ pc' = IF r.ok THEN "repaired" ELSE "failed"
    /\ UNCHANGED <<ver, rows, cols, difficulty, stack, start, finish, count,
                   added, attempts, given, results>>

EnsureBoundaryWalls ==
    /\ pc = "repaired"
    /\ maze' = ensureBoundaryWalls(maze, rows, cols)
    /\ pc' = "done"
    /\ UNCHANGED <<ver, rows, cols, difficulty, stack, start, finish, count,
                   added, attempts, given, results>>

----------------------------------------------------------------------------
(* The v1.2.0 generator.                                                   *)

(* PathfindingSettings *)
MAX_ITERATIONS == 10000
(* HEURISTIC_WEIGHT = 1.2 = HeuristicWeightNum / HeuristicWeightDen; the   *)
(* scores of findPath120 are kept multiplied by HeuristicWeightDen.        *)
HeuristicWeightNum == 6
HeuristicWeightDen == 5

(* Math.abs(row2 - row1) + Math.abs(col2 - col1) * HEURISTIC_WEIGHT, scaled *)
heuristic120(row1, col1, row2, col2) ==
    HeuristicWeightDen * Abs(row2 - row1) + HeuristicWeightNum * Abs(col2 - col1)

isValidCell(row, col, nrows, ncols) ==
    row >= 0 /\ row < nrows /\ col >= 0 /\ col < ncols

(* getUnvisitedNeighbors: DirectionOffsets times 2, target valid and WALL *)
getUnvisitedNeighbors(m, row, col, nrows, ncols) ==
    { i \in 1..Len(directions) :
        LET newRow == row + directions[i][1] * 2
            newCol == col + directions[i][2] * 2
        IN  isValidCell(newRow, newCol, nrows, ncols) /\ CellAt(m, newRow, newCol) = WALL }

(* createPath(from, to) of v1.2.0: the midpoint and the target become EMPTY *)
createPath120(m, row1, col1, row2, col2) ==
    SetCell(SetCell(m, row1 + (row2 - row1) \div 2, col1 + (col2 - col1) \div 2, EMPTY),
            row2, col2, EMPTY)

(* findDistantPoint of v1.2.0: distances matrix (Infinity = not in dist), *)
(* the maximum is updated when a cell is enqueued.                         *)
RECURSIVE distantScan120(_, _, _, _, _, _, _, _)
distantScan120(m, current, i, queue, dist, best, nrows, ncols) ==
    IF i > Len(directions) THEN [queue |-> queue, dist |-> dist, best |-> best]
    ELSE LET newRow == current[1] + directions[i][1]
             newCol == current[2] + directions[i][2]
             take == /\ isValidCell(newRow, newCol, nrows, ncols)
                     /\ CellAt(m, newRow, newCol) # WALL
                     /\ <<newRow, newCol>> \notin DOMAIN dist
             d == dist[current] + 1
         IN  IF take
             THEN distantScan120(m, current, i + 1, Append(queue, <<newRow, newCol>>),
                      (<<newRow, newCol>> :> d) @@ dist,
                      IF d > best.maxDist
                      THEN [maxDist |-> d, maxPoint |-> <<newRow, newCol>>] ELSE best,
                      nrows, ncols)
             ELSE distantScan120(m, current, i + 1, queue, dist, best, nrows, ncols)

RECURSIVE distantLoop120(_, _, _, _, _, _)
distantLoop120(m, queue, dist, best, nrows, ncols) ==
    IF Len(queue) = 0 THEN best.maxPoint
    ELSE LET e == distantScan120(m, Head(queue), 1, Tail(queue), dist, best, nrows, ncols)
         IN  distantLoop120(m, e.queue, e.dist, e.best, nrows, ncols)

findDistantPoint120(m, startRow, startCol, nrows, ncols) ==
    distantLoop120(m, << <<startRow, startCol>> >>, (<<startRow, startCol>> :> 0),
                   [maxDist |-> 0, maxPoint |-> <<startRow, startCol>>], nrows, ncols)

(* findCell: the first cell of the type in row-major order, <<>> for null *)
findCell(m, type, nrows, ncols) ==
    LET hits == { k \in 0..(nrows * ncols - 1) : m[k \div ncols][k % ncols] = type }
    IN  IF hits = {} THEN <<>>
        ELSE LET k == CHOOSE x \in hits : \A y \in hits : x <= y
             IN  <<k \div ncols, k % ncols>>

(* findPath of v1.2.0.  openSet and closedSet are Sets of arrays, and an   *)
(* array is equal only to itself: openSet.delete(current),                 *)
(* closedSet.has(neighbor) and openSet.has(neighbor) are handed fresh      *)
(* arrays and never match.  So nothing leaves openSet, no neighbour is     *)
(* skipped as closed, and every passable neighbour is added again with its *)
(* gScore, fScore and cameFrom overwritten (these Maps are keyed by        *)
(* string).  The scan keeps the first minimum in insertion order, and all  *)
(* entries of one cell share one fScore, so openSet holds the first entry  *)
(* of each cell only.                                                      *)
RECURSIVE lowest120(_, _, _, _)
lowest120(openSet, fScore, i, current) ==
    IF i > Len(openSet) THEN current
    ELSE lowest120(openSet, fScore, i + 1,
                   IF fScore[openSet[i]] < fScore[current] THEN openSet[i] ELSE current)

AddOnce(openSet, cell) ==
    IF \E i \in 1..Len(openSet) : openSet[i] = cell THEN openSet ELSE Append(openSet, cell)

RECURSIVE relax120(_, _, _, _, _, _, _, _)
relax120(m, st, current, i, endRow, endCol, nrows, ncols) ==
    IF i > Len(directions) THEN st
    ELSE LET neighbor == <<current[1] + directions[i][1], current[2] + directions[i][2]>>
             tentativeGScore == st.gScore[current] + HeuristicWeightDen
         IN  IF ~isValidCell(neighbor[1], neighbor[2], nrows, ncols)
                    \/ CellAt(m, neighbor[1], neighbor[2]) = WALL
             THEN relax120(m, st, current, i + 1, endRow, endCol, nrows, ncols)
             ELSE relax120(m,
                      [openSet |-> AddOnce(st.openSet, neighbor),
                       gScore |-> (neighbor :> tentativeGScore) @@ st.gScore,
                       fScore |-> (neighbor :> (tentativeGScore
                                      + heuristic120(neighbor[1], neighbor[2], endRow, endCol)))
                                  @@ st.fScore,
                       cameFrom |-> (neighbor :> current) @@ st.cameFrom],
                      current, i + 1, endRow, endCol, nrows, ncols)

(* reconstructPath: follows cameFrom while the current cell has an entry;  *)
(* a cell met twice means the walk never ends.                             *)
RECURSIVE reconstructPath(_, _, _, _)
reconstructPath(cameFrom, current, path, met) ==
    IF current \notin DOMAIN cameFrom THEN [kind |-> "path", path |-> path]
    ELSE IF cameFrom[current] \in met THEN [kind |-> "diverges", path |-> <<>>]
    ELSE reconstructPath(cameFrom, cameFrom[current], <<cameFrom[current]>> \o path,
                         met \cup {cameFrom[current]})

(* An iteration that leaves openSet and the three Maps as they were is     *)
(* repeated unchanged up to MAX_ITERATIONS, after which null is returned.  *)
RECURSIVE findPath120Loop(_, _, _, _, _, _, _)
findPath120Loop(m, st, iterations, endRow, endCol, nrows, ncols) ==
    IF ~(Len(st.openSet) > 0 /\ iterations < MAX_ITERATIONS)
    THEN [kind |-> "null", path |-> <<>>]
    ELSE LET current == lowest120(st.openSet, st.fScore, 2, st.openSet[1])
         IN  IF current[1] = endRow /\ current[2] = endCol
             THEN reconstructPath(st.cameFrom, current, <<current>>, {current})
             ELSE LET after == relax120(m, st, current, 1, endRow, endCol, nrows, ncols)
                  IN  IF after = st THEN [kind |-> "null", path |-> <<>>]
                      ELSE findPath120Loop(m, after, iterations + 1,
                                           endRow, endCol, nrows, ncols)

findPath120(m, startRow, startCol, endRow, endCol, nrows, ncols) ==
    findPath120Loop(m,
        [openSet |-> << <<startRow, startCol>> >>,
         gScore |-> (<<startRow, startCol>> :> 0),
         fScore |-> (<<startRow, startCol>> :> heuristic120(startRow, startCol, endRow, endCol)),
         cameFrom |-> [c \in {} |-> <<>>]],
        0, endRow, endCol, nrows, ncols)

(* ensurePathExists of v1.2.0: "true", "false", or "diverges" when         *)
(* reconstructPath never returns                                           *)
ensurePathExists120(m, nrows, ncols) ==
    LET s == findCell(m, START, nrows, ncols)
        f == findCell(m, FINISH, nrows, ncols)
    IN  IF s = <<>> \/ f = <<>> THEN "false"
        ELSE LET r == findPath120(m, s[1], s[2], f[1], f[2], nrows, ncols)
             IN  CASE r.kind = "path" -> "true"
                   [] r.kind = "null" -> "false"
                   [] r.kind = "diverges" -> "diverges"

(* difficultySettings, in percent of the cells *)
wallCount120(d, nrows, ncols) ==
    CASE d = "easy" -> (nrows * ncols * 10) \div 100
      [] d = "medium" -> (nrows * ncols * 20) \div 100
      [] d = "hard" -> (nrows * ncols * 30) \div 100
      [] d = "extreme" -> (nrows * ncols * 40) \div 100

pathCount120(d, nrows, ncols) ==
    CASE d = "easy" -> (nrows * ncols * 20) \div 100
      [] d = "medium" -> (nrows * ncols * 10) \div 100
      [] d = "hard" -> (nrows * ncols * 5) \div 100
      [] d = "extreme" -> (nrows * ncols * 2) \div 100

Generate120 ==
    /\ ver = "v120" /\ pc = "ready"
    /\ maze' = SetCell(AllWalls(rows, cols), 1, 1, EMPTY)
    /\ start' = Pos(1, 1)
    /\ stack' = << Pos(1, 1) >>
    /\ pc' = "carve"
    /\ UNCHANGED <<ver, rows, cols, difficulty, finish, count, added, attempts,
                   given, results>>

GenerateBaseMaze120 ==
    /\ ver = "v120" /\ pc = "carve" /\ Len(stack) > 0
    /\ LET current == stack[Len(stack)]
           neighbors == getUnvisitedNeighbors(maze, current.row, current.col, rows, cols)
       IN  \/ /\ neighbors = {}
              /\ stack' = SubSeq(stack, 1, Len(stack) - 1)
              /\ maze' = maze
           \/ \E i \in neighbors :
                 LET next == Pos(current.row + directions[i][1] * 2,
                                 current.col + directions[i][2] * 2)
                 IN  /\ maze' = createPath120(maze, current.row, current.col,
                                              next.row, next.col)
                     /\ stack' = Append(stack, next)
    /\ UNCHANGED <<ver, rows, cols, difficulty, pc, start, finish, count, added,
                   attempts, given, results>>

AddStartAndFinish120 ==
    /\ ver = "v120" /\ pc = "carve" /\ Len(stack) = 0
    /\ LET withStart == SetCell(maze, 1, 1, START)
           f == findDistantPoint120(withStart, 1, 1, rows, cols)
       IN  /\ maze' = SetCell(withStart, f[1], f[2], FINISH)
           /\ finish' = Pos(f[1], f[2])
    /\ pc' = "placed"
    /\ UNCHANGED <<ver, rows, cols, difficulty, stack, start, count, added,
                   attempts, given, results>>

AdjustDifficulty120 ==
    /\ ver = "v120" /\ pc = "placed"
    /\ count' = wallCount120(difficulty, rows, cols)
    /\ attempts' = 0
    /\ added' = 0
    /\ pc' = "walls"
    /\ UNCHANGED <<ver, rows, cols, difficulty, maze, stack, start, finish,
                   given, results>>

AddRandomWalls120 ==
    /\ ver = "v120" /\ pc = "walls" /\ attempts < count
    /\ \E row \in 1..(rows - 2), col \in 1..(cols - 2) :
          maze' = IF maze[row][col] = EMPTY THEN SetCell(maze, row, col, WALL) ELSE maze
    /\ attempts' = attempts + 1
    /\ UNCHANGED <<ver, rows, cols, difficulty, pc, stack, start, finish, count,
                   added, given, results>>

AddRandomWallsReturn120 ==
    /\ ver = "v120" /\ pc = "walls" /\ ~(attempts < count)
    /\ count' = pathCount120(difficulty, rows, cols)
    /\ attempts' = 0
    /\ pc' = "paths"
    /\ UNCHANGED <<ver, rows, cols, difficulty, maze, stack, start, finish,
                   added, given, results>>

AddRandomPaths120 ==
    /\ ver = "v120" /\ pc = "paths" /\ attempts < count
    /\ \E row \in 1..(rows - 2), col \in 1..(cols - 2) :
          maze' = IF maze[row][col] = WALL THEN SetCell(maze, row, col, EMPTY) ELSE maze
    /\ attempts' = attempts + 1
    /\ UNCHANGED <<ver, rows, cols, difficulty, pc, stack, start, finish, count,
                   added, given, results>>

AdjustReturn120 ==
    /\ ver = "v120" /\ pc = "paths" /\ ~(attempts < count)
    /\ pc' = "adjusted"
    /\ UNCHANGED <<ver, rows, cols, difficulty, maze, stack, start, finish, count,
                   added, attempts, given, results>>

(* if (!this.ensurePathExists()) throw ...; a reconstructPath that never   *)
(* returns leaves generate() running for ever ("hung")                     *)
EnsurePathExists120 ==
    /\ ver = "v120" /\ pc = "adjusted"
    /\ LET r == ensurePathExists120(maze, rows, cols)
       IN  pc' = CASE r = "true" -> "repaired"
                   [] r = "false" -> "failed"
                   [] r = "diverges" -> "hung"
    /\ UNCHANGED <<ver, rows, cols, difficulty, maze, stack, start, finish, count,
                   added, attempts, given, results>>


Init ==
    /\ ver \in {"v110", "v120"}
    /\ rows \in MinSize..MaxRows
    /\ cols \in MinSize..MaxCols
    /\ difficulty \in Difficulties
    /\ pc = "ready"
    /\ maze = <<>>
    /\ stack = <<>>
    /\ start = NoPos
    /\ finish = NoPos
    /\ count = 0
    /\ added = 0
    /\ attempts = 0
    /\ given = <<>>
    /\ results = <<>>

Next ==
    \/ Generate110
    \/ CarvePassages110
    \/ PlaceStartFinish110
    \/ AdjustDifficulty110
    \/ AddRandomPaths110
    \/ AddRandomWalls110
    \/ AdjustReturn110
    \/ EnsurePathExists110
    \/ EnsureBoundaryWalls
    \/ Generate120
    \/ GenerateBaseMaze120
    \/ AddStartAndFinish120
    \/ AdjustDifficulty120
    \/ AddRandomWalls120
    \/ AddRandomWallsReturn120
    \/ AddRandomPaths120
    \/ AdjustReturn120
    \/ EnsurePathExists120

Spec == Init /\ [][Next]_vars

----------------------------------------------------------------------------
(* Callers of the pathfinder: findPath applied to a grid, a start and a    *)
(* finish drawn from bounded sets (v1.1.0).                                *)

(* the first MaxFree cells, column by column, of the top MinSize - 2 rows  *)
FreeCells ==
    { Pos(k % (MinSize - 2), k \div (MinSize - 2)) : k \in 0..(MaxFree - 1) }

(* MinSize x MinSize grids: any subset of FreeCells is EMPTY, the rest WALL *)
QueryGrids ==
    { [r \in 0..(MinSize - 1) |-> [c \in 0..(MinSize - 1) |->
          IF Pos(r, c) \in open THEN EMPTY ELSE WALL]] :
      open \in SUBSET { p \in FreeCells : p.col < MinSize } }

(* a single straight 1-wide corridor from (1,1) to (1,10), walls elsewhere *)
CorridorGrid ==
    [r \in 0..(MinSize - 1) |-> [c \in 0..11 |->
        IF r = 1 /\ c >= 1 /\ c <= 10 THEN EMPTY ELSE WALL]]

InitQuery ==
    /\ ver = "v110"
    /\ difficulty = "medium"
    /\ pc = "query"
    /\ maze \in QueryGrids \cup {CorridorGrid}
    /\ rows = NumRows(maze)
    /\ cols = NumCols(maze)
    /\ start \in { p \in Cells(maze) : Passable(maze, p) }
    /\ finish \in { p \in Cells(maze) : Passable(maze, p) }
    /\ given = maze
    /\ results = <<>>
    /\ stack = <<>>
    /\ count = 0
    /\ added = 0
    /\ attempts = 0

(* const path = generator.findPath(maze, startRow, startCol, finishRow, finishCol) *)
FindPathCall ==
    /\ pc = "query" /\ Len(results) < MaxCalls
    /\ LET r == findPath(maze, rows, cols, start.row, start.col, finish.row, finish.col)
       IN  /\ results' = Append(results, [path |-> r.path, iterations |-> r.iterations,
                                          capped |-> r.capped])
           /\ maze' = r.maze
    /\ UNCHANGED <<ver, rows, cols, difficulty, pc, stack, start, finish, count,
                   added, attempts, given>>

NextQuery == FindPathCall

SpecQuery == InitQuery /\ [][NextQuery]_vars

----------------------------------------------------------------------------
(* new MazeGenerator(options) of v1.1.0.  An option is <<>> when the       *)
(* caller leaves it undefined and <<value>> otherwise.                     *)

Undefined == <<>>

(* CONFIG.MAZE: HEIGHT and WIDTH are defined, DIFFICULTY is not *)
ConfigHeight == 20
ConfigWidth == 20
ConfigDifficulty == Undefined

(* the last operand of  options.rows || CONFIG.MAZE.HEIGHT || 20 *)
FallbackSize == 20

(* JavaScript truthiness of an optional number / an optional string *)
FalsyNumber(o) == o = Undefined \/ o[1] = 0

FalsyString(o) == o = Undefined \/ o[1] = ""

(* options.rows || CONFIG.MAZE.HEIGHT || 20 *)
OrNumber(o, config, fallback) ==
    IF ~FalsyNumber(o) THEN o[1] ELSE IF config # 0 THEN config ELSE fallback

(* options.difficulty || CONFIG.MAZE.DIFFICULTY || 'medium' *)
OrString(o, config, fallback) ==
    IF ~FalsyString(o) THEN o[1] ELSE IF ~FalsyString(config) THEN config[1] ELSE fallback

(* validateParameters: ok = FALSE is the thrown ValidationError; an        *)
(* unknown difficulty is replaced by 'medium'                              *)
validateParameters(r, c, d) ==
    [ok |-> r >= MinSize /\ c >= MinSize,
     difficulty |-> IF r >= MinSize /\ c >= MinSize /\ d \notin Difficulties
                    THEN "medium" ELSE d]

(* what a caller may pass as a size and as a difficulty *)
SizeOptions(max) == {Undefined} \cup { <<n>> : n \in (-2)..max }

DifficultyOptions ==
    {Undefined} \cup { <<d>> : d \in Difficulties \cup {"", "insane", "MEDIUM"} }

InitNew ==
    /\ ver = "v110"
    /\ pc = "new"
    /\ given \in [rows : SizeOptions(MaxRows), cols : SizeOptions(MaxCols),
                  difficulty : DifficultyOptions]
    /\ rows = 0
    /\ cols = 0
    /\ difficulty = ""
    /\ maze = <<>>
    /\ stack = <<>>
    /\ start = NoPos
    /\ finish = NoPos
    /\ count = 0
    /\ added = 0
    /\ attempts = 0
    /\ results = <<>>

Construct110 ==
    /\ ver = "v110" /\ pc = "new"
    /\ LET r == OrNumber(given.rows, ConfigHeight, FallbackSize)
           c == OrNumber(given.cols, ConfigWidth, FallbackSize)
           d == OrString(given.difficulty, ConfigDifficulty, "medium")
           v == validateParameters(r, c, d)
       IN  /\ rows' = r
           /\ cols' = c
           /\ difficulty' = v.difficulty
           /\ pc' = IF v.ok THEN "ready" ELSE "rejected"
    /\ UNCHANGED <<ver, maze, stack, start, finish, count, added, attempts,
                   given, results>>

NextNew == Construct110

SpecNew == InitNew /\ [][NextNew]_vars

----------------------------------------------------------------------------
(* The Maze object (maze-module.txt) that owns a generator.  It calls the  *)
(* generator through the v1.1.0 interface: generate() returning            *)
(* {grid, start, finish}, findPath(grid, ...), getNeighbors(grid, ...).    *)
(* given is the caller's script: the constructor options, then either      *)
(* generate() or setDifficulty(difficulty, regenerate).                    *)

(* Maze.isValidPosition *)
isValidPosition(row, col, nrows, ncols) ==
    row >= 0 /\ row < nrows /\ col >= 0 /\ col < ncols

(* Maze.validateGeneratedMaze: "ok", or the message of the Error thrown *)
validateGeneratedMaze(grid, s, f, nrows, ncols) ==
    IF NumRows(grid) # nrows THEN "Invalid grid rows"
    ELSE IF NumCols(grid) # ncols THEN "Invalid grid columns"
    ELSE IF ~isValidPosition(s.row, s.col, nrows, ncols) THEN "Invalid start position"
    ELSE IF ~isValidPosition(f.row, f.col, nrows, ncols) THEN "Invalid finish position"
    ELSE IF grid[s.row][s.col] # START
         THEN "Start position does not have START cell type"
    ELSE IF grid[f.row][f.col] # FINISH
         THEN "Finish position does not have FINISH cell type"
    ELSE IF Len(findPath(grid, nrows, ncols, s.row, s.col, f.row, f.col).path) = 0
         THEN "No path exists between start and finish"
    ELSE "ok"

ValidSizeOptions(max) == { <<n>> : n \in MinSize..max }

InitMaze ==
    /\ ver = "v110"
    /\ pc = "new"
    /\ given \in { g \in [rows : ValidSizeOptions(MaxRows), cols : ValidSizeOptions(MaxCols),
                          difficulty : DifficultyOptions,
                          op : {"generate", "setDifficulty"}, regenerate : BOOLEAN] :
                   g.op = "generate" => g.regenerate }
    /\ rows = 0
    /\ cols = 0
    /\ difficulty = ""
    /\ maze = <<>>
    /\ stack = <<>>
    /\ start = NoPos
    /\ finish = NoPos
    /\ count = 0
    /\ added = 0
    /\ attempts = 0
    /\ results = <<>>

(* new Maze(scene, options): the options are read and validated, then the  *)
(* generator is constructed from the validated values                      *)
MazeConstruct ==
    /\ pc = "new"
    /\ LET opt == IF given.op = "generate" THEN given.difficulty ELSE Undefined
           r == OrNumber(given.rows, ConfigHeight, FallbackSize)
           c == OrNumber(given.cols, ConfigWidth, FallbackSize)
           d == OrString(opt, ConfigDifficulty, "medium")
           v == validateParameters(r, c, d)
           g == validateParameters(OrNumber(<<r>>, ConfigHeight, FallbackSize),
                                   OrNumber(<<c>>, ConfigWidth, FallbackSize),
                                   OrString(<<v.difficulty>>, ConfigDifficulty, "medium"))
       IN  /\ rows' = r
           /\ cols' = c
           /\ difficulty' = v.difficulty
           /\ pc' = IF v.ok /\ g.ok THEN "idle" ELSE "rejected"
    /\ UNCHANGED <<ver, maze, stack, start, finish, count, added, attempts,
                   given, results>>

(* Maze.generate(): this.generator.generate() starts *)
MazeGenerate ==
    /\ pc = "idle" /\ given.op = "generate" /\ results = <<>>
    /\ pc' = "ready"
    /\ results' = <<"generate">>
    /\ UNCHANGED <<ver, rows, cols, difficulty, maze, stack, start, finish, count,
                   added, attempts, given>>

(* Maze.setDifficulty(newDifficulty, regenerate) up to the call of         *)
(* this.generate(); the new generator is built from the Maze's rows, cols  *)
(* and the difficulty just stored                                          *)
MazeSetDifficulty ==
    /\ pc = "idle" /\ given.op = "setDifficulty" /\ results = <<>>
    /\ LET newDifficulty ==
               IF given.difficulty # Undefined /\ given.difficulty[1] \in Difficulties
               THEN given.difficulty[1] ELSE "medium"
           g == validateParameters(OrNumber(<<rows>>, ConfigHeight, FallbackSize),
                                   OrNumber(<<cols>>, ConfigWidth, FallbackSize),
                                   OrString(<<newDifficulty>>, ConfigDifficulty, "medium"))
       IN  /\ difficulty' = g.difficulty
           /\ pc' = IF ~g.ok THEN "threw"
                    ELSE IF given.regenerate THEN "ready" ELSE "returned"
    /\ results' = <<"setDifficulty">>
    /\ UNCHANGED <<ver, rows, cols, maze, stack, start, finish, count, added,
                   attempts, given>>

(* Maze.generate() after this.generator.generate() has returned: the       *)
(* result is stored and validateGeneratedMaze runs; a thrown Error leaves   *)
(* generate(), and setDifficulty() when it made the call                   *)
MazeValidate ==
    /\ pc = "done"
    /\ pc' = IF validateGeneratedMaze(maze, start, finish, rows, cols) = "ok"
             THEN "returned" ELSE "threw"
    /\ UNCHANGED <<ver, rows, cols, difficulty, maze, stack, start, finish, count,
                   added, attempts, given, results>>

NextMaze ==
    \/ MazeConstruct
    \/ MazeGenerate
    \/ MazeSetDifficulty
    \/ Generate110
    \/ CarvePassages110
    \/ PlaceStartFinish110
    \/ AdjustDifficulty110
    \/ AddRandomPaths110
    \/ AddRandomWalls110
    \/ AdjustReturn110
    \/ EnsurePathExists110
    \/ EnsureBoundaryWalls
    \/ MazeValidate

SpecMaze == InitMaze /\ [][NextMaze]_vars

----------------------------------------------------------------------------
(* The repair pass on its own: ensurePathExists of v1.1.0 applied to a     *)
(* grid and two distinct cells of it, drawn from bounded sets.             *)

(* the first MaxOpen cells, column by column, of the top MinSize - 2 rows  *)
RepairCells ==
    { Pos(k % (MinSize - 2), k \div (MinSize - 2)) : k \in 0..(MaxOpen - 1) }

(* MinSize x MinSize grids: any subset of RepairCells is EMPTY, the rest WALL *)
RepairGrids ==
    { [r \in 0..(MinSize - 1) |-> [c \in 0..(MinSize - 1) |->
          IF Pos(r, c) \in open THEN EMPTY ELSE WALL]] :
      open \in SUBSET { p \in RepairCells : p.col < MinSize } }

InitRepair ==
    /\ ver = "v110"
    /\ difficulty = "medium"
    /\ pc = "query"
    /\ maze \in RepairGrids
    /\ rows = NumRows(maze)
    /\ cols = NumCols(maze)
    /\ start \in Cells(maze)
    /\ finish \in Cells(maze) \ {start}
    /\ given = maze
    /\ results = <<>>
    /\ stack = <<>>
    /\ count = 0
    /\ added = 0
    /\ attempts = 0

(* maze = generator.ensurePathExists(maze, startRow, startCol, finishRow, finishCol) *)
EnsurePathExistsCall ==
    /\ pc = "query"
    /\ LET r == ensurePathExists(maze, rows, cols, start.row, start.col,
                                 finish.row, finish.col)
       IN  /\ maze' = r.maze
           /\ results' = << [created |-> r.created] >>
           /\ pc' = IF r.ok THEN "returned" ELSE "threw"
    /\ UNCHANGED <<ver, rows, cols, difficulty, stack, start, finish, count,
                   added, attempts, given>>

NextRepair == EnsurePathExistsCall

SpecRepair == InitRepair /\ [][NextRepair]_vars

----------------------------------------------------------------------------
(* The read-only queries of a Maze whose grid is installed, each applied   *)
(* to a position in or just outside the grid.                              *)

Null == <<>>

(* Maze.getCellType *)
getCellType(m, nrows, ncols, row, col) ==
    IF ~isValidPosition(row, col, nrows, ncols) THEN Null ELSE << m[row][col] >>

(* Maze.findPath: the returned array *)
MazeFindPath(m, nrows, ncols, startRow, startCol, finishRow, finishCol) ==
    IF ~isValidPosition(startRow, startCol, nrows, ncols)
         \/ ~isValidPosition(finishRow, finishCol, nrows, ncols)
    THEN <<>>
    ELSE findPath(m, nrows, ncols, startRow, startCol, finishRow, finishCol).path

(* the positions of the grid and the ring of positions around it *)
Window(m) ==
    { Pos(r, c) : r \in (-1)..NumRows(m), c \in (-1)..NumCols(m) }

ApiOps == {"getRandomPath", "getNeighbors", "getCellType", "findPath"}

InitApi ==
    /\ ver = "v110"
    /\ difficulty = "medium"
    /\ pc = "query"
    /\ maze \in RepairGrids
    /\ rows = NumRows(maze)
    /\ cols = NumCols(maze)
    /\ given \in ApiOps
    /\ start \in Window(maze)
    /\ finish \in IF given = "findPath" THEN Window(maze) ELSE {NoPos}
    /\ count \in IF given = "getRandomPath" THEN (-1)..MaxSteps ELSE {0}
    /\ results = <<>>
    /\ stack = <<>>
    /\ added = 0
    /\ attempts = 0

(* maze.getRandomPath(startRow, startCol, steps) *)
GetRandomPathCall ==
    /\ pc = "query" /\ given = "getRandomPath"
    /\ \E path \in getRandomPath(maze, start.row, start.col, count) :
          results' = << path >>
    /\ pc' = "returned"
    /\ UNCHANGED <<ver, rows, cols, difficulty, maze, stack, start, finish, count,
                   added, attempts, given>>

(* maze.getNeighbors(row, col) *)
GetNeighborsCall ==
    /\ pc = "query" /\ given = "getNeighbors"
    /\ results' = << getNeighbors(maze, start.row, start.col) >>
    /\ pc' = "returned"
    /\ UNCHANGED <<ver, rows, cols, difficulty, maze, stack, start, finish, count,
                   added, attempts, given>>

(* maze.getCellType(row, col) *)
GetCellTypeCall ==
    /\ pc = "query" /\ given = "getCellType"
    /\ results' = << getCellType(maze, rows, cols, start.row, start.col) >>
    /\ pc' = "returned"
    /\ UNCHANGED <<ver, rows, cols, difficulty, maze, stack, start, finish, count,
                   added, attempts, given>>

(* maze.findPath(startRow, startCol, finishRow, finishCol) *)
MazeFindPathCall ==
    /\ pc = "query" /\ given = "findPath"
    /\ results' = << MazeFindPath(maze, rows, cols, start.row, start.col,
                                  finish.row, finish.col) >>
    /\ pc' = "returned"
    /\ UNCHANGED <<ver, rows, cols, difficulty, maze, stack, start, finish, count,
                   added, attempts, given>>

NextApi ==
    \/ GetRandomPathCall
    \/ GetNeighborsCall
    \/ GetCellTypeCall
    \/ MazeFindPathCall

SpecApi == InitApi /\ [][NextApi]_vars

----------------------------------------------------------------------------
(* Reloading a snapshot: deserializeMaze of the generator, and deserialize *)
(* and restoreState of a Maze that holds a generated 5 x 5 maze.  A        *)
(* payload is what JSON.parse makes of the text: nothing (the text is not  *)
(* JSON), null, or an object whose fields are <<>> when missing and        *)
(* <<value>> otherwise.                                                    *)

(* restoreState: maxAge = 60 * 60 * 1000 ms, in minutes *)
MaxAge == 60

(* the maze the Maze holds before the reload *)
InstalledGrid ==
    SetCell(SetCell(SetCell(AllWalls(MinSize, MinSize), 1, 1, START), 1, 2, EMPTY),
            1, 3, FINISH)

(* grids a snapshot may carry: the installed one, one whose corridor is    *)
(* blocked, one with an open perimeter cell, one without START, one with   *)
(* no open cell                                                            *)
SnapshotGrids ==
    { InstalledGrid,
      SetCell(InstalledGrid, 1, 2, WALL),
      SetCell(InstalledGrid, 0, 2, EMPTY),
      SetCell(InstalledGrid, 1, 1, EMPTY),
      AllWalls(MinSize, MinSize) }

Optional(S) == {Undefined} \cup { <<x>> : x \in S }

SnapshotMetadata ==
    [rows : {MinSize - 1, MinSize, MinSize + 1}, cols : {MinSize},
     difficulty : Optional({"easy"}), age : {0, MaxAge + 1}]

Payloads ==
    [kind : {"object"}, grid : Optional(SnapshotGrids),
     start : Optional({Pos(1, 1), Pos(1, 3)}),
     finish : Optional({Pos(1, 1), Pos(1, 3)}),
     metadata : Optional(SnapshotMetadata)]
    \cup [kind : {"absent", "malformed", "null"}, grid : {Undefined},
          start : {Undefined}, finish : {Undefined}, metadata : {Undefined}]

(* !mazeData.grid || !mazeData.start || !mazeData.finish, start only *)
missingStartOnly(data) ==
    data.start = Undefined

(* !mazeData.grid || !mazeData.start || !mazeData.finish *)
missingRequired(data) ==
    data.grid = Undefined \/ data.start = Undefined \/ data.finish = Undefined

(* deserializeMaze: JSON.parse throws on text that is not JSON, reading a  *)
(* field of null throws, the check throws; all are caught and rethrown     *)
deserializeMaze(payload) ==
    IF payload.kind # "object" THEN [threw |-> TRUE, data |-> <<>>]
    ELSE IF missingRequired(payload) THEN [threw |-> TRUE, data |-> <<>>]
    ELSE [threw |-> FALSE, data |-> << payload >>]

(* a || b for an optional string a *)
OrElse(o, other) ==
    IF ~FalsyString(o) THEN o[1] ELSE other

InitLoad ==
    /\ ver = "v110"
    /\ pc = "loaded"
    /\ rows = MinSize
    /\ cols = MinSize
    /\ difficulty = "medium"
    /\ maze = InstalledGrid
    /\ start = Pos(1, 1)
    /\ finish = Pos(1, 3)
    /\ given \in [op : {"deserializeMaze", "deserialize", "restoreState"},
                  payload : Payloads]
    /\ given.payload.kind = "absent" => given.op = "restoreState"
    /\ results = <<>>
    /\ stack = <<>>
    /\ count = 0
    /\ added = 0
    /\ attempts = 0

(* const mazeData = generator.deserializeMaze(serializedMaze) *)
DeserializeMazeCall ==
    /\ pc = "loaded" /\ given.op = "deserializeMaze"
    /\ LET r == deserializeMaze(given.payload)
       IN  /\ results' = r.data
           /\ pc' = IF r.threw THEN "threw" ELSE "returned"
    /\ UNCHANGED <<ver, rows, cols, difficulty, maze, stack, start, finish, count,
                   added, attempts, given>>

(* maze.deserialize(serialized): the dimensions are overwritten before the *)
(* generator is rebuilt, whose constructor throws on a size below MinSize  *)
MazeDeserialize ==
    /\ pc = "loaded" /\ given.op = "deserialize"
    /\ LET data == given.payload
       IN  IF data.kind # "object" \/ missingRequired(data) \/ data.metadata = Undefined
           THEN /\ pc' = "threw"
                /\ UNCHANGED <<rows, cols, difficulty, maze, start, finish, results>>
           ELSE LET md == data.metadata[1]
                    d == OrElse(md.difficulty, difficulty)
                    v == validateParameters(
                             OrNumber(<< md.rows >>, ConfigHeight, FallbackSize),
                             OrNumber(<< md.cols >>, ConfigWidth, FallbackSize),
                             OrString(<< d >>, ConfigDifficulty, "medium"))
                IN  /\ rows' = md.rows
                    /\ cols' = md.cols
                    /\ IF v.ok
                       THEN /\ maze' = data.grid[1]
                            /\ start' = data.start[1]
                            /\ finish' = data.finish[1]
                            /\ difficulty' = d
                            /\ results' = << "this" >>
                            /\ pc' = "returned"
                       ELSE /\ pc' = "threw"
                            /\ UNCHANGED <<difficulty, maze, start, finish, results>>
    /\ UNCHANGED <<ver, stack, count, added, attempts, given>>

(* maze.restoreState(): given.payload is the item 'maze_state' of          *)
(* localStorage; a missing grid, start or finish is installed as it is     *)
(* (undefined: <<>> for the grid, NoPos for a position)                    *)
MazeRestoreState ==
    /\ pc = "loaded" /\ given.op = "restoreState"
    /\ LET state == given.payload
           compatible == /\ state.kind = "object"
                         /\ state.metadata # Undefined
                         /\ state.metadata[1].rows = rows
                         /\ state.metadata[1].cols = cols
                         /\ ~(state.metadata[1].age > MaxAge)
       IN  IF compatible
           THEN /\ maze' = IF state.grid = Undefined THEN <<>> ELSE state.grid[1]
                /\ start' = IF state.start = Undefined THEN NoPos ELSE state.start[1]
                /\ finish' = IF state.finish = Undefined THEN NoPos ELSE state.finish[1]
                /\ difficulty' = OrElse(state.metadata[1].difficulty, difficulty)
                /\ results' = << TRUE >>
           ELSE /\ results' = << FALSE >>
                /\ UNCHANGED <<maze, start, finish, difficulty>>
    /\ pc' = "returned"
    /\ UNCHANGED <<ver, rows, cols, stack, count, added, attempts, given>>

NextLoad ==
    \/ DeserializeMazeCall
    \/ MazeDeserialize
    \/ MazeRestoreState

SpecLoad == InitLoad /\ [][NextLoad]_vars

----------------------------------------------------------------------------
(* serializeMaze and deserializeMaze of v1.1.0 on the text between them.   *)
(* A JSON text is a sequence of tokens: the punctuation marks, the digits  *)
(* and the minus sign one character each, and the contents of a string as  *)
(* one token between two quote tokens.                                     *)

DigitChars == << "0", "1", "2", "3", "4", "5", "6", "7", "8", "9" >>

(* a number printed without its leading digits *)
numberTextLastDigit(n) ==
    << DigitChars[(Abs(n) % 10) + 1] >>

(* JSON.stringify of an integer *)
RECURSIVE numberText(_)
numberText(n) ==
    IF n < 0 THEN << "-" >> \o numberText(-n)
    ELSE IF n < 10 THEN << DigitChars[n + 1] >>
    ELSE numberText(n \div 10) \o << DigitChars[(n % 10) + 1] >>

stringText(s) == << "\"", s, "\"" >>

RECURSIVE joined(_, _)
joined(texts, i) ==
    IF i > Len(texts) THEN <<>>
    ELSE (IF i > 1 THEN << "," >> ELSE <<>>) \o texts[i] \o joined(texts, i + 1)

(* JSON.stringify of an array whose elements print as texts *)
arrayText(texts) == << "[" >> \o joined(texts, 1) \o << "]" >>

(* JSON.stringify of an object: keys in insertion order *)
objectText(keys, texts) ==
    << "{" >> \o joined([i \in 1..Len(keys) |-> stringText(keys[i]) \o << ":" >> \o texts[i]], 1)
           \o << "}" >>

gridText(g) ==
    arrayText([i \in 1..NumRows(g) |->
        arrayText([j \in 1..NumCols(g) |-> numberText(g[i - 1][j - 1])])])

positionText(p) ==
    objectText(<< "row", "col" >>, << numberText(p.row), numberText(p.col) >>)

(* serializeMaze(mazeData) of a generator with this.rows, this.cols,       *)
(* this.difficulty, at time Date.now() = timestamp                         *)
serializeMaze(mazeData, nrows, ncols, d, timestamp) ==
    objectText(<< "grid", "start", "finish", "metadata" >>,
               << gridText(mazeData.grid), positionText(mazeData.start),
                  positionText(mazeData.finish),
                  objectText(<< "rows", "cols", "difficulty", "timestamp" >>,
                             << numberText(nrows), numberText(ncols),
                                stringText(d), numberText(timestamp) >>) >>)

DigitValue(ch) == CHOOSE d \in 0..9 : DigitChars[d + 1] = ch

IsDigit(ch) == \E d \in 0..9 : DigitChars[d + 1] = ch

(* JSON.parse: [value, next], the value that begins at token i and the     *)
(* index after it.  An array is a function on 0..n-1, an object a function *)
(* on its keys.                                                            *)
RECURSIVE parseDigits(_, _, _)
parseDigits(text, i, acc) ==
    IF i <= Len(text) /\ IsDigit(text[i])
    THEN parseDigits(text, i + 1, acc * 10 + DigitValue(text[i]))
    ELSE [value |-> acc, next |-> i]

RECURSIVE parseValue(_, _)
RECURSIVE parseItems(_, _, _)
RECURSIVE parseMembers(_, _, _)

parseItems(text, i, acc) ==
    IF text[i] = "]"
    THEN [value |-> [k \in 0..(Len(acc) - 1) |-> acc[k + 1]], next |-> i + 1]
    ELSE LET from == IF text[i] = "," THEN i + 1 ELSE i
             item == parseValue(text, from)
         IN  parseItems(text, item.next, Append(acc, item.value))

parseMembers(text, i, acc) ==
    IF text[i] = "}"
    THEN [value |-> acc, next |-> i + 1]
    ELSE LET from == IF text[i] = "," THEN i + 1 ELSE i
             key == text[from + 1]
             member == parseValue(text, from + 4)
         IN  parseMembers(text, member.next, acc @@ (key :> member.value))

parseValue(text, i) ==
    CASE text[i] = "[" -> parseItems(text, i + 1, <<>>)
      [] text[i] = "{" -> parseMembers(text, i + 1, <<>>)
      [] text[i] = "\"" -> [value |-> text[i + 1], next |-> i + 3]
      [] text[i] = "-" -> LET n == parseDigits(text, i + 1, 0)
                          IN  [value |-> -n.value, next |-> n.next]
      [] OTHER -> parseDigits(text, i, 0)

JSONParse(text) == parseValue(text, 1).value

(* the fields deserializeMaze reads of a parsed object *)
FieldOf(obj, key) ==
    IF key \in DOMAIN obj THEN << obj[key] >> ELSE Undefined

payloadOf(obj) ==
    [kind |-> "object", grid |-> FieldOf(obj, "grid"), start |-> FieldOf(obj, "start"),
     finish |-> FieldOf(obj, "finish"), metadata |-> FieldOf(obj, "metadata")]

(* valid mazes: MinSize x MinSize grids whose open cells are interior      *)
(* cells, with START and FINISH on two of them and a way between them, and *)
(* the corridor of CorridorGrid from (1,1) to (1,10)                       *)
InteriorCells == { Pos(r, c) : r \in 1..(MinSize - 2), c \in 1..(MinSize - 2) }

ValidResults ==
    { [grid |-> SetCell(SetCell(
                    [r \in 0..(MinSize - 1) |-> [c \in 0..(MinSize - 1) |->
                        IF Pos(r, c) \in open THEN EMPTY ELSE WALL]],
                    s.row, s.col, START), f.row, f.col, FINISH),
       start |-> s, finish |-> f] :
      <<open, s, f>> \in { x \in (SUBSET InteriorCells) \X {Pos(1, 1), Pos(3, 3)} \X InteriorCells :
                            /\ x[2] \in x[1] /\ x[3] \in x[1] /\ x[2] # x[3]
                            /\ Cardinality(x[1]) <= MaxPassages } }
    \cup { [grid |-> SetCell(SetCell(CorridorGrid, 1, 1, START), 1, 10, FINISH),
            start |-> Pos(1, 1), finish |-> Pos(1, 10)] }

InitSnapshot ==
    /\ ver = "v110"
    /\ pc = "held"
    /\ \E m \in { v \in ValidResults : Reachable(v.grid, v.start, v.finish) } :
          /\ maze = m.grid
          /\ start = m.start
          /\ finish = m.finish
    /\ rows = NumRows(maze)
    /\ cols = NumCols(maze)
    /\ difficulty \in {"easy", "extreme"}
    /\ count \in {0, 1730000000}
    /\ given = <<>>
    /\ results = <<>>
    /\ stack = <<>>
    /\ added = 0
    /\ attempts = 0

(* const text = generator.serializeMaze({grid, start, finish}); count is   *)
(* Date.now()                                                              *)
SerializeMazeCall ==
    /\ pc = "held"
    /\ given' = serializeMaze([grid |-> maze, start |-> start, finish |-> finish],
                              rows, cols, difficulty, count)
    /\ pc' = "serialized"
    /\ UNCHANGED <<ver, rows, cols, difficulty, maze, stack, start, finish, count,
                   added, attempts, results>>

(* const mazeData = generator.deserializeMaze(text) *)
DeserializeTextCall ==
    /\ pc = "serialized"
    /\ LET r == deserializeMaze(payloadOf(JSONParse(given)))
       IN  /\ results' = r.data
           /\ pc' = IF r.threw THEN "threw" ELSE "returned"
    /\ UNCHANGED <<ver, rows, cols, difficulty, maze, stack, start, finish, count,
                   added, attempts, given>>

NextSnapshot ==
    \/ SerializeMazeCall
    \/ DeserializeTextCall

SpecSnapshot == InitSnapshot /\ [][NextSnapshot]_vars

----------------------------------------------------------------------------
(* The carvers alone: generate() up to the return of carvePassages         *)
(* (v1.1.0) and of generateBaseMaze (v1.2.0).  The carver runs on until it *)
(* returns, which the weak fairness of its steps states.                   *)

InitCarve ==
    /\ ver \in {"v110", "v120"}
    /\ rows \in MinSize..MaxRows
    /\ cols \in MinSize..MaxCols
    /\ difficulty = "medium"
    /\ pc = "ready"
    /\ maze = <<>>
    /\ stack = <<>>
    /\ start = NoPos
    /\ finish = NoPos
    /\ count = 0
    /\ added = 0
    /\ attempts = 0
    /\ given = <<>>
    /\ results = <<>>

NextCarve ==
    \/ Generate110
    \/ CarvePassages110
    \/ Generate120
    \/ GenerateBaseMaze120

SpecCarve == InitCarve /\ [][NextCarve]_vars /\ WF_vars(NextCarve)

----------------------------------------------------------------------------
(* findDistantPoint of either generator applied to a grid of EMPTY and     *)
(* WALL cells and an open origin, as addStartAndFinish and generate call   *)
(* it after carving.                                                       *)

InitDistant ==
    /\ ver \in {"v110", "v120"}
    /\ difficulty = "medium"
    /\ pc = "query"
    /\ maze \in RepairGrids
    /\ rows = NumRows(maze)
    /\ cols = NumCols(maze)
    /\ start \in { p \in Cells(maze) : Passable(maze, p) }
    /\ finish = NoPos
    /\ given = maze
    /\ results = <<>>
    /\ stack = <<>>
    /\ count = 0
    /\ added = 0
    /\ attempts = 0

(* const finishPoint = this.findDistantPoint(maze, startRow, startCol) *)
FindDistantPointCall110 ==
    /\ ver = "v110" /\ pc = "query"
    /\ LET finishPoint == findDistantPoint(maze, start.row, start.col)
       IN  /\ finish' = Pos(finishPoint.row, finishPoint.col)
           /\ results' = << finishPoint.distance >>
    /\ pc' = "returned"
    /\ UNCHANGED <<ver, rows, cols, difficulty, maze, stack, start, count, added,
                   attempts, given>>

(* const finish = this.findDistantPoint(startRow, startCol) *)
FindDistantPointCall120 ==
    /\ ver = "v120" /\ pc = "query"
    /\ LET f == findDistantPoint120(maze, start.row, start.col, rows, cols)
       IN  finish' = Pos(f[1], f[2])
    /\ pc' = "returned"
    /\ UNCHANGED <<ver, rows, cols, difficulty, maze, stack, start, count, added,
                   attempts, given, results>>

NextDistant ==
    \/ FindDistantPointCall110
    \/ FindDistantPointCall120

SpecDistant == InitDistant /\ [][NextDistant]_vars

----------------------------------------------------------------------------
(* The grid objects of the v1.1.0 transformations.  results is the heap:   *)
(* results[k] is the contents of grid object k, object 1 is the grid the   *)
(* caller passes.  stack holds the frames of the calls in progress, each   *)
(* with the object its parameter maze refers to (arg) and the object its   *)
(* modifiedMaze refers to (work).  Every write of a transformation goes to *)
(* the object its modifiedMaze refers to.                                  *)

(* JSON.parse(JSON.stringify(maze)) *)
deepCopy(g) == JSONParse(gridText(g))

(* let modifiedMaze = maze: the same object, no copy *)
workingAlias(heap, arg) ==
    [heap |-> heap, ref |-> arg]

(* let modifiedMaze = JSON.parse(JSON.stringify(maze)): a new object *)
workingCopy(heap, arg) ==
    [heap |-> Append(heap, deepCopy(heap[arg])), ref |-> Len(heap) + 1]

Frame(fn, arg, work) == [fn |-> fn, arg |-> arg, work |-> work]

(* a 6 x 5 maze as carvePassages leaves it when it carves (1,1), (1,3),    *)
(* (3,3), (3,1), (5,1), (5,3) in this order: the last row is open          *)
EvenCarved ==
    [r \in 0..5 |-> [c \in 0..4 |->
        IF <<r, c>> \in { <<1, 1>>, <<1, 2>>, <<1, 3>>, <<2, 3>>, <<3, 3>>, <<3, 2>>,
                          <<3, 1>>, <<4, 1>>, <<5, 1>>, <<5, 2>>, <<5, 3>> }
        THEN EMPTY ELSE WALL]]

FrameInputs ==
    { v \in ValidResults : v.start = Pos(1, 1) /\ v.finish \in {Pos(1, 3), Pos(3, 3)} }
    \cup { [grid |-> SetCell(SetCell(EvenCarved, 1, 1, START), 5, 3, FINISH),
            start |-> Pos(1, 1), finish |-> Pos(5, 3)] }

FrameOps ==
    {"adjustDifficulty", "addRandomPaths", "addRandomWalls", "ensurePathExists",
     "ensureBoundaryWalls"}

InitFrame ==
    /\ ver = "v110"
    /\ pc = "call"
    /\ \E m \in FrameInputs :
          /\ results = << m.grid >>
          /\ start = m.start
          /\ finish = m.finish
          /\ \E op \in FrameOps : given = [op |-> op, grid |-> m.grid]
    /\ rows = NumRows(results[1])
    /\ cols = NumCols(results[1])
    /\ difficulty \in IF given.op = "adjustDifficulty" THEN Difficulties ELSE {"medium"}
    /\ count \in IF given.op \in {"addRandomPaths", "addRandomWalls"} THEN 1..2 ELSE {0}
    /\ maze = <<>>
    /\ stack = <<>>
    /\ added = 0
    /\ attempts = 0

(* maze = this.adjustDifficulty(maze, ...): the copy of adjustDifficulty,  *)
(* the target of the tier, and the entry of addRandomPaths or              *)
(* addRandomWalls with its own copy                                        *)
FrameAdjustDifficulty ==
    /\ pc = "call" /\ given.op = "adjustDifficulty"
    /\ LET outer == workingCopy(results, 1)
           inner == workingCopy(outer.heap, outer.ref)
           fn == IF difficulty \in {"easy", "medium"} THEN "addRandomPaths"
                 ELSE "addRandomWalls"
       IN  /\ results' = inner.heap
           /\ stack' = << Frame("adjustDifficulty", 1, outer.ref),
                          Frame(fn, outer.ref, inner.ref) >>
    /\ count' = targetCount(difficulty, rows, cols)
    /\ added' = 0
    /\ attempts' = 0
    /\ pc' = "loop"
    /\ UNCHANGED <<ver, rows, cols, difficulty, maze, start, finish, given>>

(* this.addRandomPaths(maze, count, ...) or this.addRandomWalls(maze,      *)
(* count, ...) called on the caller's grid                                 *)
FrameAddRandom ==
    /\ pc = "call" /\ given.op \in {"addRandomPaths", "addRandomWalls"}
    /\ LET w == workingCopy(results, 1)
       IN  /\ results' = w.heap
           /\ stack' = << Frame(given.op, 1, w.ref) >>
    /\ added' = 0
    /\ attempts' = 0
    /\ pc' = "loop"
    /\ UNCHANGED <<ver, rows, cols, difficulty, maze, start, finish, count, given>>

(* one iteration of the loop of addRandomPaths or addRandomWalls *)
FramePick ==
    /\ pc = "loop" /\ added < count /\ attempts < count * 3
    /\ LET top == stack[Len(stack)]
       IN  \E row \in 1..(rows - 2), col \in 1..(cols - 2) :
              LET r == IF top.fn = "addRandomPaths"
                       THEN addRandomPathsPick(results[top.work], row, col, start.row,
                                start.col, finish.row, finish.col, rows, cols)
                       ELSE addRandomWallsPick(results[top.work], row, col, start.row,
                                start.col, finish.row, finish.col, rows, cols)
              IN  /\ results' = [results EXCEPT ![top.work] = r.maze]
                  /\ added' = added + r.added
    /\ attempts' = attempts + 1
    /\ UNCHANGED <<ver, rows, cols, difficulty, pc, maze, stack, start, finish,
                   count, given>>

(* return modifiedMaze, through adjustDifficulty if it made the call *)
FrameLoopReturn ==
    /\ pc = "loop" /\ ~(added < count /\ attempts < count * 3)
    /\ maze' = results[stack[Len(stack)].work]
    /\ stack' = <<>>
    /\ pc' = "returned"
    /\ UNCHANGED <<ver, rows, cols, difficulty, start, finish, count, added,
                   attempts, given, results>>

(* maze = this.ensurePathExists(maze, ...): the copy, findPath on it, and  *)
(* when it finds nothing createPath with a copy of its own and findPath    *)
(* again                                                                   *)
FrameEnsurePathExists ==
    /\ pc = "call" /\ given.op = "ensurePathExists"
    /\ LET w == workingCopy(results, 1)
           first == findPath(w.heap[w.ref], rows, cols, start.row, start.col,
                             finish.row, finish.col)
           h1 == [w.heap EXCEPT ![w.ref] = first.maze]
       IN  IF Len(first.path) # 0
           THEN /\ results' = h1
                /\ maze' = h1[w.ref]
                /\ pc' = "returned"
           ELSE LET c == workingCopy(h1, w.ref)
                    made == createPath(c.heap[c.ref], rows, cols, start.row, start.col,
                                       finish.row, finish.col)
                    again == findPath(made, rows, cols, start.row, start.col,
                                      finish.row, finish.col)
                    h2 == [c.heap EXCEPT ![c.ref] = again.maze]
                IN  /\ results' = h2
                    /\ maze' = h2[c.ref]
                    /\ pc' = IF Len(again.path) # 0 THEN "returned" ELSE "threw"
    /\ UNCHANGED <<ver, rows, cols, difficulty, stack, start, finish, count, added,
                   attempts, given>>

(* maze = this.ensureBoundaryWalls(maze) *)
FrameEnsureBoundaryWalls ==
    /\ pc = "call" /\ given.op = "ensureBoundaryWalls"
    /\ LET w == workingCopy(results, 1)
           sealed == ensureBoundaryWalls(w.heap[w.ref], rows, cols)
       IN  /\ results' = [w.heap EXCEPT ![w.ref] = sealed]
           /\ maze' = sealed
    /\ pc' = "returned"
    /\ UNCHANGED <<ver, rows, cols, difficulty, stack, start, finish, count, added,
                   attempts, given>>

NextFrame ==
    \/ FrameAdjustDifficulty
    \/ FrameAddRandom
    \/ FramePick
    \/ FrameLoopReturn
    \/ FrameEnsurePathExists
    \/ FrameEnsureBoundaryWalls

SpecFrame == InitFrame /\ [][NextFrame]_vars


(* The cells findPath of v1.2.0 selects as current, one entry per          *)
(* iteration of its loop: the cell selected and the open set as the        *)
(* iteration leaves it (openSet.delete(current) is handed the array built  *)
(* by the selection scan, which is no member of the Set).  An iteration    *)
(* that changes nothing is followed by the same iteration, so its entry is *)
(* listed twice and the listing stops there.                               *)
RECURSIVE currents120(_, _, _, _, _, _, _, _)
currents120(m, st, iterations, endRow, endCol, nrows, ncols, acc) ==
    IF ~(Len(st.openSet) > 0 /\ iterations < MAX_ITERATIONS) THEN acc
    ELSE LET current == lowest120(st.openSet, st.fScore, 2, st.openSet[1])
         IN  IF current[1] = endRow /\ current[2] = endCol
             THEN acc
             ELSE LET after == relax120(m, st, current, 1, endRow, endCol, nrows, ncols)
                      entry == [current |-> current, openSet |-> after.openSet]
                  IN  IF after = st THEN acc \o <<entry, entry>>
                      ELSE currents120(m, after, iterations + 1,
                                       endRow, endCol, nrows, ncols, Append(acc, entry))

findPath120Currents(m, startRow, startCol, endRow, endCol, nrows, ncols) ==
    currents120(m,
        [openSet |-> << <<startRow, startCol>> >>,
         gScore |-> (<<startRow, startCol>> :> 0),
         fScore |-> (<<startRow, startCol>> :> heuristic120(startRow, startCol, endRow, endCol)),
         cameFrom |-> [c \in {} |-> <<>>]],
        0, endRow, endCol, nrows, ncols, <<>>)


(* ensurePathExists of v1.1.0 handed a grid that carries its START and     *)
(* FINISH cells, connected or not.                                         *)
InitMarked ==
    /\ ver = "v110"
    /\ difficulty = "medium"
    /\ pc = "query"
    /\ \E r \in ValidResults :
          /\ maze = r.grid
          /\ start = r.start
          /\ finish = r.finish
    /\ rows = NumRows(maze)
    /\ cols = NumCols(maze)
    /\ given = maze
    /\ results = <<>>
    /\ stack = <<>>
    /\ count = 0
    /\ added = 0
    /\ attempts = 0

NextMarked == EnsurePathExistsCall

SpecMarked == InitMarked /\ [][NextMarked]_vars


(* generate() of v1.1.0 on grids whose two dimensions are odd *)
OddSizes == { MinSize, MinSize + 2 }

InitOdd ==
    /\ ver = "v110"
    /\ rows \in OddSizes
    /\ cols \in OddSizes
    /\ difficulty \in Difficulties
    /\ pc = "ready"
    /\ maze = <<>>
    /\ stack = <<>>
    /\ start = NoPos
    /\ finish = NoPos
    /\ count = 0
    /\ added = 0
    /\ attempts = 0
    /\ given = <<>>
    /\ results = <<>>

NextOdd ==
    \/ Generate110
    \/ CarvePassages110
    \/ PlaceStartFinish110
    \/ AdjustDifficulty110
    \/ AddRandomPaths110
    \/ AddRandomWalls110
    \/ AdjustReturn110
    \/ EnsurePathExists110
    \/ EnsureBoundaryWalls

SpecOdd == InitOdd /\ [][NextOdd]_vars


(* The life of one Maze object (maze-module.txt): calls made on it one     *)
(* after another.  At rest rows, cols, difficulty, maze, start and finish  *)
(* are the fields of the Maze (maze = <<>> is this.grid = null); while     *)
(* this.generator.generate() runs they are the generator's fields and      *)
(* locals, and the fields of the Maze are the ones saved in given.before.  *)
(* given.generator is <<>> for null, or <<n>> for the n-th generator built.*)
(* A call that throws ends the session.                                    *)
MaxGenerations == 1

MazeFields ==
    [rows |-> rows, cols |-> cols, grid |-> maze, start |-> start, finish |-> finish,
     generator |-> given.generator]

InitLife ==
    /\ ver = "v110"
    /\ pc = "rest"
    /\ rows \in MinSize..MaxRows
    /\ cols \in MinSize..MaxCols
    /\ difficulty \in {"easy", "hard"}
    /\ maze = <<>>
    /\ start = NoPos
    /\ finish = NoPos
    /\ given \in [scene : BOOLEAN, rendered : {FALSE}, generator : { <<0>> },
                  history : { <<>> }, generations : {0}, before : { <<>> }]
    /\ results = <<>>
    /\ stack = <<>>
    /\ count = 0
    /\ added = 0
    /\ attempts = 0

CanCall == pc = "rest" /\ Len(given.history) < MaxCalls

Entered(op) == [given EXCEPT !.history = Append(@, op), !.before = MazeFields]

(* this.generator = new MazeGenerator({...}) *)
Rebuilt(g) == [g EXCEPT !.generator = << Len(g.history) >>]

(* this.generator.generate() is entered: fresh locals *)
Regenerate(g) ==
    /\ g.generations < MaxGenerations
    /\ given' = [g EXCEPT !.generations = @ + 1]
    /\ pc' = "ready"
    /\ maze' = <<>>
    /\ start' = NoPos
    /\ finish' = NoPos

(* Maze.generate(): this.generator.generate() on a null generator is a     *)
(* TypeError, caught and rethrown                                          *)
MazeGenerateCall ==
    /\ CanCall
    /\ IF given.generator = <<>>
       THEN /\ given' = Entered("generate")
            /\ pc' = "threw"
            /\ UNCHANGED <<maze, start, finish>>
       ELSE Regenerate(Entered("generate"))
    /\ UNCHANGED <<ver, rows, cols, difficulty, stack, count, added, attempts, results>>

(* Maze.generate() once this.generator.generate() has returned or thrown:  *)
(* the result is stored, isRendered is reset, validateGeneratedMaze runs   *)
MazeStore ==
    /\ pc \in {"done", "failed"}
    /\ Len(given.history) > 0
    /\ IF pc = "failed"
       THEN /\ maze' = given.before.grid
            /\ start' = given.before.start
            /\ finish' = given.before.finish
            /\ pc' = "threw"
            /\ given' = given
       ELSE /\ UNCHANGED <<maze, start, finish>>
            /\ given' = [given EXCEPT !.rendered = FALSE]
            /\ pc' = IF validateGeneratedMaze(maze, start, finish, rows, cols) = "ok"
                     THEN "rest" ELSE "threw"
    /\ stack' = <<>>
    /\ count' = 0
    /\ added' = 0
    /\ attempts' = 0
    /\ UNCHANGED <<ver, rows, cols, difficulty, results>>

(* Maze.resize(newRows, newCols, regenerate) *)
MazeResizeCall ==
    /\ CanCall
    /\ \E newRows \in (MinSize - 1)..MaxRows, newCols \in MinSize..MaxCols,
          regenerate \in BOOLEAN :
          IF newRows < MinSize \/ newCols < MinSize
          THEN /\ given' = Entered("resize")
               /\ pc' = "threw"
               /\ UNCHANGED <<rows, cols, maze, start, finish>>
          ELSE /\ rows' = newRows
               /\ cols' = newCols
               /\ IF regenerate
                  THEN Regenerate(Rebuilt(Entered("resize")))
                  ELSE /\ given' = Rebuilt(Entered("resize"))
                       /\ pc' = "rest"
                       /\ UNCHANGED <<maze, start, finish>>
    /\ UNCHANGED <<ver, difficulty, stack, count, added, attempts, results>>

(* Maze.setDifficulty(newDifficulty, regenerate) *)
MazeSetDifficultyCall ==
    /\ CanCall
    /\ \E d \in {"easy", "hard", "insane"}, regenerate \in BOOLEAN :
          LET newDifficulty == IF d \in Difficulties THEN d ELSE "medium"
              g == validateParameters(OrNumber(<<rows>>, ConfigHeight, FallbackSize),
                                      OrNumber(<<cols>>, ConfigWidth, FallbackSize),
                                      OrString(<<newDifficulty>>, ConfigDifficulty, "medium"))
          IN  /\ difficulty' = newDifficulty
              /\ IF ~g.ok
                 THEN /\ given' = Entered("setDifficulty")
                      /\ pc' = "threw"
                      /\ UNCHANGED <<maze, start, finish>>
                 ELSE IF regenerate
                 THEN Regenerate(Rebuilt(Entered("setDifficulty")))
                 ELSE /\ given' = Rebuilt(Entered("setDifficulty"))
                      /\ pc' = "rest"
                      /\ UNCHANGED <<maze, start, finish>>
    /\ UNCHANGED <<ver, rows, cols, stack, count, added, attempts, results>>

(* the texts handed to Maze.deserialize: not JSON, or an object carrying   *)
(* the installed grid with or without metadata                             *)
LifePayloads ==
    { p \in Payloads :
        /\ p.kind \in {"object", "malformed"}
        /\ p.kind = "object" =>
              /\ p.grid = << InstalledGrid >>
              /\ p.start = << Pos(1, 1) >>
              /\ p.finish = << Pos(1, 3) >>
              /\ p.metadata # Undefined => p.metadata[1].age = 0 }

(* Maze.deserialize(serialized) *)
MazeDeserializeCall ==
    /\ CanCall
    /\ \E data \in LifePayloads :
          IF data.kind # "object" \/ missingRequired(data) \/ data.metadata = Undefined
          THEN /\ given' = Entered("deserialize")
               /\ pc' = "threw"
               /\ UNCHANGED <<rows, cols, difficulty, maze, start, finish>>
          ELSE LET md == data.metadata[1]
                   d == OrElse(md.difficulty, difficulty)
                   v == validateParameters(
                            OrNumber(<< md.rows >>, ConfigHeight, FallbackSize),
                            OrNumber(<< md.cols >>, ConfigWidth, FallbackSize),
                            OrString(<< d >>, ConfigDifficulty, "medium"))
               IN  /\ rows' = md.rows
                   /\ cols' = md.cols
                   /\ IF v.ok
                      THEN /\ maze' = data.grid[1]
                           /\ start' = data.start[1]
                           /\ finish' = data.finish[1]
                           /\ difficulty' = d
                           /\ given' = [Rebuilt(Entered("deserialize")) EXCEPT
                                           !.rendered = FALSE]
                           /\ pc' = "rest"
                      ELSE /\ given' = Entered("deserialize")
                           /\ pc' = "threw"
                           /\ UNCHANGED <<difficulty, maze, start, finish>>
    /\ UNCHANGED <<ver, stack, count, added, attempts, results>>

(* Maze.render(options): nothing without a grid *)
MazeRender ==
    /\ CanCall
    /\ given' = IF maze = <<>> THEN Entered("render")
                ELSE [Entered("render") EXCEPT !.rendered = TRUE]
    /\ UNCHANGED <<ver, rows, cols, difficulty, pc, maze, stack, start, finish, count,
                   added, attempts, results>>

(* Maze.optimizeResources(): the generator is dropped when the maze is     *)
(* neither rendered nor attached to a scene                                *)
MazeOptimizeResources ==
    /\ CanCall
    /\ given' = IF ~given.rendered /\ ~given.scene
                THEN [Entered("optimizeResources") EXCEPT !.generator = <<>>]
                ELSE Entered("optimizeResources")
    /\ UNCHANGED <<ver, rows, cols, difficulty, pc, maze, stack, start, finish, count,
                   added, attempts, results>>

(* Maze.destroy() *)
MazeDestroy ==
    /\ CanCall
    /\ maze' = <<>>
    /\ start' = NoPos
    /\ finish' = NoPos
    /\ given' = [Entered("destroy") EXCEPT !.generator = <<>>, !.scene = FALSE]
    /\ UNCHANGED <<ver, rows, cols, difficulty, pc, stack, count, added, attempts,
                   results>>

(* One of the queries findPath(1, 1, 1, 3), getRandomPath(1, 1, 1),        *)
(* getNeighbors(1, 1), getCellType(1, 1) on the Maze at rest.  Each but    *)
(* getCellType hands a non-null grid to this.generator, and reading a      *)
(* method of a null generator is a TypeError no query catches.             *)
MazeQueryCall ==
    /\ pc = "rest"
    /\ \E q \in ApiOps :
          IF q = "getCellType"
          THEN /\ results' = << [query |-> q,
                                 value |-> IF maze = <<>> THEN Null
                                           ELSE getCellType(maze, rows, cols, 1, 1)] >>
               /\ pc' = "answered"
          ELSE IF maze = <<>>
          THEN /\ results' = << [query |-> q, value |-> <<>>] >>
               /\ pc' = "answered"
          ELSE IF given.generator = <<>>
          THEN /\ results' = << [query |-> q, value |-> <<>>] >>
               /\ pc' = "raised"
          ELSE /\ pc' = "answered"
               /\ \E v \in CASE q = "findPath" ->
                                  { MazeFindPath(maze, rows, cols, 1, 1, 1, 3) }
                             [] q = "getNeighbors" -> { getNeighbors(maze, 1, 1) }
                             [] q = "getRandomPath" -> getRandomPath(maze, 1, 1, 1) :
                     results' = << [query |-> q, value |-> v] >>
    /\ UNCHANGED <<ver, rows, cols, difficulty, maze, stack, start, finish, count,
                   added, attempts, given>>

NextLife ==
    \/ MazeGenerateCall
    \/ MazeResizeCall
    \/ MazeSetDifficultyCall
    \/ MazeDeserializeCall
    \/ MazeRender
    \/ MazeOptimizeResources
    \/ MazeDestroy
    \/ MazeQueryCall
    \/ Generate110
    \/ CarvePassages110
    \/ PlaceStartFinish110
    \/ AdjustDifficulty110
    \/ AddRandomPaths110
    \/ AddRandomWalls110
    \/ AdjustReturn110
    \/ EnsurePathExists110
    \/ EnsureBoundaryWalls
    \/ MazeStore

SpecLife == InitLife /\ [][NextLife]_vars

----------------------------------------------------------------------------
(* Properties.                                                             *)

Perimeter(m) ==
    { p \in Cells(m) : p.row = 0 \/ p.row = NumRows(m) - 1
                       \/ p.col = 0 \/ p.col = NumCols(m) - 1 }

CountOf(m, type) == Cardinality({ p \in Cells(m) : m[p.row][p.col] = type })

(* generate() of the v1.1.0 generator has returned {grid, start, finish} *)
Returned110 == ver = "v110" /\ pc = "done"

(* C1: in the grid returned by generate() of v1.1.0 the finish cell is     *)
(* reachable from the start cell by 4-directional moves through non-WALL   *)
(* cells, for every rows, cols >= 5 and every tier.                        *)
C1_FinishReachable ==
    Returned110 =>
        /\ Passable(maze, start) /\ Passable(maze, finish)
        /\ Reachable(maze, start, finish)

(* C2: the MazeResult returned by generate() of v1.1.0 has                 *)
(* grid[start] = START, grid[finish] = FINISH and start # finish.          *)
C2_StartFinishCells ==
    Returned110 =>
        /\ maze[start.row][start.col] = START
        /\ maze[finish.row][finish.col] = FINISH
        /\ start # finish

(* C3: start and finish returned by generate() of v1.1.0 lie strictly      *)
(* inside the boundary: 1 <= row <= rows-2 and 1 <= col <= cols-2.         *)
C3_StartFinishInterior ==
    Returned110 =>
        /\ 1 <= start.row /\ start.row <= rows - 2
        /\ 1 <= start.col /\ start.col <= cols - 2
        /\ 1 <= finish.row /\ finish.row <= rows - 2
        /\ 1 <= finish.col /\ finish.col <= cols - 2

(* C4: every cell on row 0, row rows-1, column 0 and column cols-1 of the  *)
(* grid returned by generate() is WALL, in both generators.  generate() of *)
(* v1.2.0 stops inside ensurePathExists (see C6), so for v1.2.0 the        *)
(* sealing step is also applied to the grid generate() holds at that       *)
(* point.                                                                  *)
C4_PerimeterIsWall ==
    /\ pc = "done" => \A p \in Perimeter(maze) : maze[p.row][p.col] = WALL
    /\ (ver = "v120" /\ pc \in {"adjusted", "failed", "hung"}) =>
          \A p \in Perimeter(maze) :
              ensureBoundaryWalls(maze, rows, cols)[p.row][p.col] = WALL

(* a returned grid whose FINISH had been placed on the last row: sealing   *)
(* has overwritten a passable perimeter cell                               *)
C4_Witness ==
    /\ pc = "done"
    /\ finish.row = rows - 1
    /\ maze[finish.row][finish.col] = WALL

(* C5: the grid returned by generate() of v1.1.0 contains exactly one      *)
(* START cell and exactly one FINISH cell.                                 *)
C5_OneStartOneFinish ==
    Returned110 => CountOf(maze, START) = 1 /\ CountOf(maze, FINISH) = 1

(* C6: generate() of v1.2.0 terminates and returns a grid: it neither      *)
(* throws 'no path exists' nor runs for ever.                              *)
C6_Generate120Returns ==
    ver = "v120" => pc \notin {"failed", "hung"}

(* C7: findPath(grid, a, b) of v1.1.0 returns a non-empty sequence if and  *)
(* only if b is reachable from a by a breadth-first search over 4-adjacent *)
(* non-WALL cells (a, b in-bounds and non-WALL); it returns the empty      *)
(* sequence when b is walled off from a.                                   *)
C7_FindPathIffReachable ==
    pc = "query" =>
        \A i \in 1..Len(results) :
            (Len(results[i].path) > 0) <=> Reachable(given, start, finish)

C7_Witness ==
    /\ pc = "query" /\ Len(results) >= 1
    /\ start # finish
    /\ ~Reachable(given, start, finish)
    /\ results[1].path = <<>>

(* C8: a non-empty sequence returned by findPath of v1.1.0 begins with     *)
(* start, ends with finish, moves between 4-adjacent cells, holds non-WALL *)
(* cells only, and holds no cell twice.                                    *)
C8_PathWellFormed ==
    pc = "query" =>
        \A i \in 1..Len(results) :
            LET path == results[i].path
            IN  Len(path) > 0 =>
                  /\ path[1] = start
                  /\ path[Len(path)] = finish
                  /\ \A j \in 1..(Len(path) - 1) : Adjacent(path[j], path[j + 1])
                  /\ \A j \in 1..Len(path) :
                        path[j] \in Cells(given) /\ Passable(given, path[j])
                  /\ \A j, k \in 1..Len(path) : j # k => path[j] # path[k]

C8_Witness ==
    /\ pc = "query" /\ Len(results) >= 1
    /\ Len(results[1].path) >= 5
    /\ start.row # finish.row /\ start.col # finish.col

(* C9: for a reachable pair the path returned by findPath of v1.1.0 has    *)
(* BFS hop-distance + 1 cells; on the straight corridor from (1,1) to      *)
(* (1,10) it is exactly (1,1), (1,2), ..., (1,10).                         *)
C9_ShortestPath ==
    pc = "query" =>
        \A i \in 1..Len(results) :
            /\ Reachable(given, start, finish) =>
                  Len(results[i].path) = Distances(given, start)[finish] + 1
            /\ (given = CorridorGrid /\ start = Pos(1, 1) /\ finish = Pos(1, 10)) =>
                  results[i].path = [k \in 1..10 |-> Pos(1, k)]

C9_Witness ==
    /\ pc = "query" /\ Len(results) >= 1
    /\ given = CorridorGrid /\ start = Pos(1, 1) /\ finish = Pos(1, 10)
    /\ Len(results[1].path) = 10

C11_SmallSizeRejected ==
    (pc \in {"ready", "rejected"}
       /\ \/ (given.rows # Undefined /\ given.rows[1] < MinSize)
          \/ (given.cols # Undefined /\ given.cols[1] < MinSize)) =>
        /\ pc = "rejected"
        /\ maze = <<>>
        /\ given.rows # Undefined => rows = given.rows[1]
        /\ given.cols # Undefined => cols = given.cols[1]

(* C12: for every difficulty value that is not easy, medium, hard or       *)
(* extreme, construction (and Maze.setDifficulty) does not fail, the       *)
(* difficulty becomes medium, and a later generate() applies exactly the   *)
(* medium transformation (addRandomPaths with 10% of the cells).           *)
C12_UnknownDifficultyIsMedium ==
    (pc # "new"
       /\ (given.difficulty = Undefined \/ given.difficulty[1] \notin Difficulties)) =>
        /\ pc # "rejected"
        /\ difficulty = "medium"
        /\ pc # "walls"
        /\ pc = "paths" => count = targetCount("medium", rows, cols)
        /\ given.op = "setDifficulty" => pc \notin {"threw", "failed"}

(* the stage of generate() a position belongs to: 0 all-WALL grid to come, *)
(* 1 carving, 2 start and finish placed, 3 difficulty adjustment running,  *)
(* 4 adjustment returned, 5 path check and repair over, 6 boundary sealed  *)
StageOf(p) ==
    CASE p = "ready" -> 0
      [] p = "carve" -> 1
      [] p = "placed" -> 2
      [] p \in {"walls", "paths"} -> 3
      [] p = "adjusted" -> 4
      [] p \in {"repaired", "failed", "hung"} -> 5
      [] p = "done" -> 6

(* every step stays in its stage or enters the next one, and the grid is   *)
(* not written once the boundary is sealed                                 *)
StagesInOrder ==
    [][/\ StageOf(pc') \in {StageOf(pc), StageOf(pc) + 1}
       /\ pc = "done" => maze' = maze]_vars

(* C13: in every run of generate(), of either generator, the stages happen *)
(* once each in the order all-WALL grid, carving, start/finish placement,  *)
(* difficulty adjustment, path check/repair, boundary sealing, so no run   *)
(* ends before the sealing stage, and no cell is written after sealing.    *)
C13_StagesOnceInOrder ==
    /\ StagesInOrder
    /\ [](pc \notin {"failed", "hung"})

InGrid(m, p) ==
    p \in Cells(m)

(* C15: for every grid, every origin of the grid and every maxSteps, zero  *)
(* included, the sequence getRandomPath returns is non-empty and begins    *)
(* with the origin.                                                        *)
C15_WalkStartsAtOrigin ==
    (pc = "returned" /\ given = "getRandomPath" /\ InGrid(maze, start)) =>
        /\ Len(results[1]) >= 1
        /\ results[1][1] = start

(* C16: from an origin of the grid and with maxSteps >= 1, getRandomPath   *)
(* makes at most maxSteps moves, each to a non-WALL cell 4-adjacent to the *)
(* previous entry, and makes fewer only when the cell it stopped on has no *)
(* non-WALL neighbour.                                                     *)
C16_WalkMoves ==
    (pc = "returned" /\ given = "getRandomPath" /\ InGrid(maze, start) /\ count >= 1) =>
        LET path == results[1]
        IN  /\ Len(path) >= 1
            /\ Len(path) - 1 <= count
            /\ \A i \in 2..Len(path) :
                  /\ InGrid(maze, path[i])
                  /\ Adjacent(path[i - 1], path[i])
                  /\ maze[path[i].row][path[i].col] # WALL
            /\ Len(path) - 1 < count =>
                  ~\E q \in Cells(maze) :
                      Adjacent(path[Len(path)], q) /\ maze[q.row][q.col] # WALL

C16_Witness ==
    /\ pc = "returned" /\ given = "getRandomPath" /\ InGrid(maze, start)
    /\ count = MaxSteps
    /\ Len(results[1]) = count + 1
    /\ results[1][3] # results[1][1]

(* the step a direction tag stands for *)
StepOf(direction) ==
    CASE direction = "up" -> Pos(-1, 0)
      [] direction = "down" -> Pos(1, 0)
      [] direction = "left" -> Pos(0, -1)
      [] direction = "right" -> Pos(0, 1)

(* C17: for every grid and every position p of it, getNeighbors returns    *)
(* exactly the 4-directional neighbours of p that lie in the grid and are  *)
(* not WALL, each once, each tagged with the direction leading from p to   *)
(* it.                                                                     *)
C17_NeighborsExact ==
    (pc = "returned" /\ given = "getNeighbors" /\ InGrid(maze, start)) =>
        LET neighbors == results[1]
            expected == { q \in Cells(maze) :
                            Adjacent(start, q) /\ maze[q.row][q.col] # WALL }
        IN  /\ { Pos(neighbors[i].row, neighbors[i].col) : i \in 1..Len(neighbors) } = expected
            /\ Len(neighbors) = Cardinality(expected)
            /\ \A i \in 1..Len(neighbors) :
                  /\ neighbors[i].direction \in {"up", "down", "left", "right"}
                  /\ neighbors[i].row = start.row + StepOf(neighbors[i].direction).row
                  /\ neighbors[i].col = start.col + StepOf(neighbors[i].direction).col

C17_Witness ==
    /\ pc = "returned" /\ given = "getNeighbors" /\ InGrid(maze, start)
    /\ Len(results[1]) = 2
    /\ \E q \in Cells(maze) : Adjacent(start, q) /\ maze[q.row][q.col] = WALL

(* C18: for every grid and every position outside it, the read-only       *)
(* queries return a null or empty result: getCellType null, findPath with  *)
(* an endpoint outside the grid the empty sequence, getRandomPath from an  *)
(* origin outside the grid the empty sequence, getNeighbors of a position  *)
(* outside the grid the empty sequence.                                    *)
C18_OutOfBoundsIsEmpty ==
    pc = "returned" =>
        /\ (given = "getCellType" /\ ~InGrid(maze, start)) => results[1] = Null
        /\ (given = "findPath" /\ (~InGrid(maze, start) \/ ~InGrid(maze, finish))) =>
              results[1] = <<>>
        /\ (given = "getRandomPath" /\ ~InGrid(maze, start)) => results[1] = <<>>
        /\ (given = "getNeighbors" /\ ~InGrid(maze, start)) => results[1] = <<>>

(* the Maze holds what it held before the reload *)
MazeUntouched ==
    /\ maze = InstalledGrid
    /\ start = Pos(1, 1)
    /\ finish = Pos(1, 3)
    /\ difficulty = "medium"
    /\ rows = MinSize /\ cols = MinSize

(* C19: for every payload that lacks grid, start or finish, deserializeMaze *)
(* and Maze.deserialize fail with an error and hand back no maze data; the *)
(* Maze keeps what it held.                                                *)
C19_MissingFieldsRejected ==
    (pc # "loaded" /\ given.op \in {"deserializeMaze", "deserialize"}
       /\ given.payload.kind = "object"
       /\ \/ given.payload.grid = Undefined
          \/ given.payload.start = Undefined
          \/ given.payload.finish = Undefined) =>
        /\ pc = "threw"
        /\ results = <<>>
        /\ MazeUntouched

C19_Witness ==
    /\ pc = "threw" /\ given.op = "deserialize"
    /\ given.payload.kind = "object"
    /\ given.payload.grid # Undefined
    /\ given.payload.start # Undefined
    /\ given.payload.finish = Undefined
    /\ given.payload.metadata # Undefined

(* invariants 1-3 of a maze: START at start, FINISH at finish, distinct,   *)
(* all-WALL perimeter, finish reachable from start                         *)
ValidMaze(m, s, f) ==
    /\ m # <<>>
    /\ s \in Cells(m) /\ f \in Cells(m)
    /\ m[s.row][s.col] = START
    /\ m[f.row][f.col] = FINISH
    /\ s # f
    /\ \A p \in Perimeter(m) : m[p.row][p.col] = WALL
    /\ Reachable(m, s, f)

(* C20: Maze.deserialize and Maze.restoreState install a snapshot only if  *)
(* grid[start] is START, grid[finish] is FINISH, start # finish, the       *)
(* perimeter is all WALL and finish is reachable from start; any other     *)
(* snapshot is rejected, so the Maze always holds a maze with these        *)
(* properties after a reload.                                              *)
C20_ReloadValidates ==
    (pc # "loaded" /\ given.op \in {"deserialize", "restoreState"}) =>
        ValidMaze(maze, start, finish)

(* C21: for every valid MazeResult m, deserializeMaze(serializeMaze(m))    *)
(* has the grid contents, the start and the finish of m.                   *)
C21_RoundTrip ==
    pc \in {"returned", "threw"} =>
        /\ pc = "returned"
        /\ results[1].grid = << maze >>
        /\ results[1].start = << start >>
        /\ results[1].finish = << finish >>

C21_Witness ==
    /\ pc = "returned"
    /\ NumCols(maze) > 10
    /\ finish.col = 10
    /\ results[1].finish[1].col = 10
    /\ count > 0

(* C22: in the v1.1.0 generator, for the hard and extreme tiers, a finish  *)
(* reachable from start when addRandomWalls starts stays reachable after   *)
(* every iteration of its loop and on return: a sealed cell that cuts the  *)
(* way is restored before the next pick.                                   *)
C22_WallsKeepConnectivity ==
    [][(ver = "v110" /\ pc = "walls" /\ Reachable(maze, start, finish)) =>
           Reachable(maze', start', finish')]_vars

C22_Witness ==
    /\ ver = "v110" /\ pc = "adjusted" /\ difficulty = "extreme"
    /\ added >= 1 /\ attempts > added
    /\ Reachable(maze, start, finish)
    /\ CountOf(maze, EMPTY) >= 1

CarveDone ==
    pc = "carve" /\ stack = <<>>

OpenCells(m) == { p \in Cells(m) : m[p.row][p.col] # WALL }

(* the non-WALL cells hold every cell of odd row and odd column, all hang  *)
(* together, and they have one adjacency less than cells: a tree           *)
SpanningTree(m, root) ==
    /\ \A p \in Cells(m) : (p.row % 2 = 1 /\ p.col % 2 = 1) => p \in OpenCells(m)
    /\ OpenCells(m) \subseteq DOMAIN Distances(m, root)
    /\ Cardinality({ e \in OpenCells(m) \X OpenCells(m) : Adjacent(e[1], e[2]) })
          = 2 * (Cardinality(OpenCells(m)) - 1)

(* C24: for every rows, cols >= 5 and every sequence of random choices the *)
(* carver of either generator terminates, and when it ends the non-WALL    *)
(* cells form a spanning tree of the cells of odd row and odd column:      *)
(* every such cell is carved, the carved cells are connected, and there is *)
(* no cycle.                                                               *)
C24_CarveSpanningTree ==
    /\ <>CarveDone
    /\ [](CarveDone => SpanningTree(maze, start))

C24_Witness ==
    /\ CarveDone
    /\ ver = "v120" /\ rows = MaxRows /\ cols = MaxCols
    /\ Cardinality(OpenCells(maze)) >= 9
    /\ SpanningTree(maze, start)

(* the up, down, left, right neighbours of p, in that order *)
Around(p) ==
    << Pos(p.row - 1, p.col), Pos(p.row + 1, p.col),
       Pos(p.row, p.col - 1), Pos(p.row, p.col + 1) >>

(* the cells a layer discovers, in order: for each cell of the layer in    *)
(* order, its neighbours in order that are passable and not yet seen       *)
RECURSIVE Discovered(_, _, _, _, _, _)
Discovered(m, layer, i, k, seen, acc) ==
    IF i > Len(layer) THEN acc
    ELSE IF k > 4 THEN Discovered(m, layer, i + 1, 1, seen, acc)
    ELSE LET q == Around(layer[i])[k]
         IN  IF q \in Cells(m) /\ Passable(m, q) /\ q \notin seen
             THEN Discovered(m, layer, i, k + 1, seen \cup {q}, Append(acc, q))
             ELSE Discovered(m, layer, i, k + 1, seen, acc)

(* the first discovered cell of the last layer of the search from origin *)
RECURSIVE FirstOfLastLayer(_, _, _)
FirstOfLastLayer(m, layer, seen) ==
    LET next == Discovered(m, layer, 1, 1, seen, <<>>)
    IN  IF Len(next) = 0 THEN layer[1]
        ELSE FirstOfLastLayer(m, next, seen \cup { next[j] : j \in 1..Len(next) })

(* C25: findDistantPoint returns a cell reachable from the origin whose    *)
(* hop distance from the origin is maximal among the reachable cells, and  *)
(* among the cells at that distance the one the breadth-first search with  *)
(* neighbour order up, down, left, right discovers first.                  *)
C25_FarthestFirstDiscovered ==
    pc = "returned" =>
        LET dist == Distances(given, start)
        IN  /\ finish \in DOMAIN dist
            /\ \A p \in DOMAIN dist : dist[p] <= dist[finish]
            /\ finish = FirstOfLastLayer(given, << start >>, {start})
            /\ ver = "v110" => results[1] = dist[finish]

C25_Witness ==
    /\ pc = "returned"
    /\ ver = "v110"
    /\ Cardinality({ p \in DOMAIN Distances(given, start) :
                        Distances(given, start)[p] = Distances(given, start)[finish] }) >= 2
    /\ finish # start

(* the orthogonally adjacent cells of p that are not WALL *)
PassableAround(m, p) ==
    { q \in Cells(m) : Adjacent(p, q) /\ m[q.row][q.col] # WALL }

(* C26: in addRandomPaths of v1.1.0, while the target count is not         *)
(* reached, a picked interior WALL cell that is not start or finish        *)
(* becomes EMPTY if it has at least two orthogonally adjacent non-WALL     *)
(* cells, and a picked cell with fewer than two is not converted.          *)
C26_OpenWithTwoPassable ==
    (ver = "v110" /\ pc = "paths" /\ added < count /\ attempts < count * 3) =>
        \A row \in 1..(rows - 2), col \in 1..(cols - 2) :
            LET after == addRandomPathsPick(maze, row, col, start.row, start.col,
                                            finish.row, finish.col, rows, cols).maze
            IN  (maze[row][col] = WALL /\ Pos(row, col) \notin {start, finish}) =>
                    /\ Cardinality(PassableAround(maze, Pos(row, col))) >= 2 =>
                          after[row][col] = EMPTY
                    /\ Cardinality(PassableAround(maze, Pos(row, col))) < 2 =>
                          after = maze

(* C27: in adjustDifficulty of v1.1.0 the easy and medium tiers never turn *)
(* a non-WALL cell into WALL, and the hard and extreme tiers never turn a  *)
(* WALL cell into a passable cell.                                         *)
C27_TierDirection ==
    [][(ver = "v110" /\ pc \in {"placed", "paths", "walls"}) =>
          \A p \in Cells(maze) :
              /\ (difficulty \in {"easy", "medium"} /\ maze[p.row][p.col] # WALL) =>
                    maze'[p.row][p.col] # WALL
              /\ (difficulty \in {"hard", "extreme"} /\ maze[p.row][p.col] = WALL) =>
                    maze'[p.row][p.col] = WALL]_vars

C27_Witness ==
    /\ ver = "v110" /\ pc = "adjusted" /\ difficulty = "easy"
    /\ added >= 2
    /\ CountOf(maze, WALL) < rows * cols - 9

(* the fraction of the cells a tier aims at, in percent *)
TierPercent(d) ==
    CASE d = "easy" -> 15
      [] d = "medium" -> 10
      [] d = "hard" -> 5
      [] d = "extreme" -> 10

(* WALL cells of a freshly carved grid with START and FINISH placed: the   *)
(* tree on the cells of odd row and odd column has 2 * L - 1 open cells    *)
CarvedWalls(nrows, ncols) ==
    nrows * ncols - (2 * ((nrows \div 2) * (ncols \div 2)) - 1)

(* C28: for every grid and every sequence of random picks, addRandomPaths  *)
(* and addRandomWalls of v1.1.0 stop after at most 3 x target picks and    *)
(* change at most target cells, with target = floor(rows x cols x          *)
(* fraction) and fraction 15% easy, 10% medium, 5% hard, 10% extreme.      *)
C28_BoundedAdjustment ==
    /\ [](( ver = "v110" /\ pc \in {"paths", "walls", "adjusted"}) =>
            /\ count = (rows * cols * TierPercent(difficulty)) \div 100
            /\ attempts <= 3 * count
            /\ added <= count
            /\ Abs(CountOf(maze, WALL) - CarvedWalls(rows, cols)) <= count)
    /\ [][(ver = "v110" /\ pc \in {"paths", "walls"}) =>
              (attempts' = attempts + 1 \/ pc' = "adjusted")]_vars

C28_Witness ==
    /\ ver = "v110" /\ pc = "adjusted" /\ difficulty = "medium"
    /\ attempts = 3 * count
    /\ added < count

(* C29: adjustDifficulty, addRandomPaths, addRandomWalls, ensurePathExists *)
(* and ensureBoundaryWalls of v1.1.0 never change a cell of the grid       *)
(* passed to them: the caller's grid keeps its contents, and so does the   *)
(* grid every call in progress received, at every step, the tentative wall *)
(* placements included.                                                    *)
C29_ArgumentUntouched ==
    /\ [](results[1] = given.grid)
    /\ [][\A i \in 1..Len(stack) : results'[stack[i].arg] = results[stack[i].arg]]_vars

C29_Witness ==
    /\ pc = "returned"
    /\ given.op = "adjustDifficulty"
    /\ Len(results) = 3
    /\ maze # given.grid
    /\ results[2] = given.grid

(* C30: in the search ensurePathExists of v1.2.0 runs from START to FINISH *)
(* on the adjusted grid, a cell selected as current is absent from the     *)
(* open set when its iteration ends and is selected by no later iteration. *)
C30_ClosedNeverReselected ==
    (ver = "v120" /\ pc \in {"repaired", "failed", "hung"}) =>
        LET s == findCell(maze, START, rows, cols)
            f == findCell(maze, FINISH, rows, cols)
        IN  (s # <<>> /\ f # <<>>) =>
                LET sel == findPath120Currents(maze, s[1], s[2], f[1], f[2], rows, cols)
                IN  /\ \A i \in 1..Len(sel) :
                           \A k \in 1..Len(sel[i].openSet) : sel[i].openSet[k] # sel[i].current
                    /\ \A i, j \in 1..Len(sel) : i < j => sel[i].current # sel[j].current

(* C31: whenever the search ensurePathExists of v1.2.0 runs from START to  *)
(* FINISH selects the finish cell, reconstructPath returns: the cameFrom   *)
(* links followed from the finish meet no cell twice, and the path         *)
(* returned begins at the start cell and ends at the finish cell.          *)
C31_ReconstructTerminates ==
    (ver = "v120" /\ pc \in {"repaired", "failed", "hung"}) =>
        LET s == findCell(maze, START, rows, cols)
            f == findCell(maze, FINISH, rows, cols)
        IN  (s # <<>> /\ f # <<>>) =>
                LET r == findPath120(maze, s[1], s[2], f[1], f[2], rows, cols)
                IN  /\ r.kind # "diverges"
                    /\ r.kind = "path" => (r.path[1] = s /\ r.path[Len(r.path)] = f)

(* C32: when ensurePathExists of v1.1.0 is handed a grid with START at     *)
(* start and FINISH at finish in which finish is not reachable from start, *)
(* the grid it returns still has START at start and FINISH at finish.      *)
C32_RepairKeepsEndpoints ==
    (pc = "returned" /\ ~Reachable(given, start, finish)
        /\ given[start.row][start.col] = START
        /\ given[finish.row][finish.col] = FINISH) =>
        /\ maze[start.row][start.col] = START
        /\ maze[finish.row][finish.col] = FINISH

(* C33: in every run of generate() of v1.1.0, at every size and tier,      *)
(* finish is reachable from start when the path-repair stage begins, and   *)
(* the stage hands on the grid it received, cell for cell, without         *)
(* failing.                                                                *)
C33_RepairIsIdle ==
    /\ []((ver = "v110" /\ pc = "adjusted") => Reachable(maze, start, finish))
    /\ [][(ver = "v110" /\ pc = "adjusted") => (maze' = maze /\ pc' = "repaired")]_vars

C33_Witness ==
    /\ ver = "v110" /\ pc = "repaired"
    /\ difficulty = "extreme"
    /\ rows = MaxRows
    /\ added > 0

(* C34: when rows and cols are both odd, every grid generate() of v1.1.0   *)
(* holds, from the first carved cell to the grid returned, has WALL on     *)
(* every perimeter cell, and ensureBoundaryWalls changes no cell.          *)
C34_OddPerimeterUntouched ==
    /\ []((rows % 2 = 1 /\ cols % 2 = 1 /\ pc # "ready") =>
             \A p \in Perimeter(maze) : maze[p.row][p.col] = WALL)
    /\ [][(rows % 2 = 1 /\ cols % 2 = 1 /\ pc = "repaired") => maze' = maze]_vars

C34_Witness ==
    /\ pc = "done"
    /\ rows = MinSize + 2
    /\ difficulty = "easy"
    /\ added > 0
    /\ \E p \in Cells(maze) : p.row = rows - 2 /\ maze[p.row][p.col] # WALL

(* C35: after any sequence of generate, resize, setDifficulty and          *)
(* deserialize calls on a Maze, whenever its grid is not null the grid has *)
(* as many rows as the Maze's rows and as many columns as its cols.        *)
C35_GridMatchesSize ==
    (pc \in {"rest", "threw"} /\ maze # <<>>
        /\ \A i \in 1..Len(given.history) :
              given.history[i] \in {"generate", "resize", "setDifficulty", "deserialize"}) =>
        /\ NumRows(maze) = rows
        /\ NumCols(maze) = cols

(* C36: when Maze.deserialize, Maze.generate or Maze.resize throws, the    *)
(* rows, cols, grid, start, finish and generator of the Maze are the ones  *)
(* it had when the call was made.                                          *)
C36_FailedCallChangesNothing ==
    (pc = "threw"
        /\ given.history[Len(given.history)] \in {"deserialize", "generate", "resize"}) =>
        MazeFields = given.before

(* C37: in every state of a Maze reached through its constructor,          *)
(* generate, render, optimizeResources and destroy, each of the queries    *)
(* findPath, getRandomPath, getNeighbors and getCellType returns a value   *)
(* and does not throw.                                                     *)
C37_QueriesNeverThrow ==
    (pc \in {"answered", "raised"}
        /\ \A i \in 1..Len(given.history) :
              given.history[i] \in {"generate", "render", "optimizeResources", "destroy"}) =>
        pc = "answered"

(* C38: in every findPath of v1.1.0 on a grid of the generator's           *)
(* dimensions, the open set never holds a cell twice, no cell is removed   *)
(* from it more than once, the loop runs at most rows x cols iterations,   *)
(* and the loop never stops on the iteration cap.                          *)
C38_OpenSetDiscipline ==
    Len(results) > 0 =>
        LET tr == findPathRemovals(maze, rows, cols, start.row, start.col,
                                   finish.row, finish.col)
        IN  /\ \A i \in 1..Len(tr) : \A j, k \in 1..Len(tr[i].openSet) :
                   j < k => tr[i].openSet[j] # tr[i].openSet[k]
            /\ \A i, j \in 1..Len(tr) : i < j => tr[i].removed # tr[j].removed
            /\ \A i \in 1..Len(results) :
                   /\ results[i].iterations <= rows * cols
                   /\ ~results[i].capped

C38_Witness ==
    /\ Len(results) = 1
    /\ results[1].path = <<>>
    /\ results[1].iterations >= 4
    /\ start # finish

====
